---- MODULE Spec2Model ----
(***************************************************************************)
(* State-machine model of DocumentRAGPanel                                  *)
(* (src/frontend/src/components/ChatPanel.tsx, lines 237-2000): the upload  *)
(* queue and its sequential drain, the topic-selection modal with its       *)
(* per-document topics cache, quiz generation and the LLM provider switch.  *)
(*                                                                          *)
(* React state cells are the variables.  An event handler is one action up  *)
(* to its first await; every continuation after an await is one more        *)
(* action, enabled when the awaited call answers.  A handler reads the      *)
(* state cells of the render it was created in, so values read after an     *)
(* await are kept in explicit closure variables (drainSnap, saveDoc, ...),  *)
(* while functional updaters (setX(prev => ...)) read the current cell.     *)
(***************************************************************************)
EXTENDS Integers, Sequences, FiniteSets, TLC

(***************************************************************************)
(* Bounds                                                                   *)
(***************************************************************************)
MaxQueue == 3
MaxBatch == 2
MaxTopicCalls == 2      \* outstanding getDocumentTopics calls per document
MaxTopics == 2          \* length of the list edited in the edit-topics modal
MaxLoads == 2           \* outstanding calls of one loader
MaxTimers == 2          \* pending 5 s timers that clear providerMessage
MaxSelections == 2      \* length of tempSelectedTopics
MaxMessages == 4        \* length of chatMessages

(***************************************************************************)
(* Values                                                                   *)
(***************************************************************************)
NULL == "null"

\* null in a cell that otherwise holds a File, a message, a call or the stats.
NoFile == [id |-> 0, stem |-> NULL, ext |-> NULL, size |-> 0]
NoMessage == [type |-> NULL, text |-> NULL, names |-> <<>>]
NoCall == [file |-> NoFile, idx |-> 0]
NoStats == -1
\* undefined message of an UploadFileItem
NoItemMessage == [text |-> NULL, args |-> <<>>]

\* File objects a file input can deliver.  "id" is the object reference
\* (prev[index]?.file === selectedFile compares references); F1 and F2 are two
\* distinct objects with the same name and the same size.
F1 == [id |-> 1, stem |-> "a", ext |-> "pdf", size |-> 10]
F2 == [id |-> 2, stem |-> "a", ext |-> "pdf", size |-> 10]
F3 == [id |-> 3, stem |-> "b", ext |-> "PDF", size |-> 20]
F4 == [id |-> 4, stem |-> "c", ext |-> "txt", size |-> 10]
Files == {F1, F2, F3, F4}

\* String.prototype.toLowerCase on the extensions in use.
ToLowerCase(ext) ==
    CASE ext = "PDF" -> "pdf"
      [] ext = "pdf" -> "pdf"
      [] ext = "txt" -> "txt"
      [] OTHER -> ext

\* file.name.toLowerCase().endsWith('.pdf')
IsPdf(f) == ToLowerCase(f.ext) = "pdf"

\* f.file.name === file.name && f.file.size === file.size
FileName(f) == <<f.stem, f.ext>>
SameIdentity(f, g) == FileName(f) = FileName(g) /\ f.size = g.size

Range(s) == {s[i] : i \in 1..Len(s)}

\* The FileList of one change event: 1..MaxBatch distinct File objects.
Batches ==
    {s \in UNION {[1..n -> Files] : n \in 1..MaxBatch} :
        \A i, j \in 1..Len(s) : i # j => s[i].id # s[j].id}

\* undefined details of an UploadFileItem
NoDetails == [present |-> FALSE, filename |-> NULL, pages_loaded |-> 0, chunks_added |-> 0]

\* Answers of uploadAndIndexDocument (RAGIngestResponse), or a thrown error.
IndexResponses ==
    { [thrown |-> FALSE, success |-> TRUE,  already_indexed |-> FALSE, error |-> NULL, pages_loaded |-> 3, chunks_added |-> 7],
      [thrown |-> FALSE, success |-> TRUE,  already_indexed |-> TRUE,  error |-> NULL, pages_loaded |-> 0, chunks_added |-> 0],
      [thrown |-> FALSE, success |-> FALSE, already_indexed |-> FALSE, error |-> "E",  pages_loaded |-> 0, chunks_added |-> 0],
      [thrown |-> FALSE, success |-> FALSE, already_indexed |-> FALSE, error |-> NULL, pages_loaded |-> 0, chunks_added |-> 0],
      [thrown |-> FALSE, success |-> FALSE, already_indexed |-> TRUE,  error |-> "E",  pages_loaded |-> 0, chunks_added |-> 0],
      [thrown |-> TRUE,  success |-> FALSE, already_indexed |-> FALSE, error |-> NULL, pages_loaded |-> 0, chunks_added |-> 0] }

Terminal == {"success", "already_indexed", "error"}

\* ---- index reset (ChatPanel.tsx 290, 828-851)
VARIABLES
    isResetting,
    resetPc,              \* "idle", "awaitReset", "awaitStats"
    backendIndex          \* "full": the backend index holds d1 and d2; "empty": it was reset

\* Indexed documents known to the backend, as listIndexedDocuments reports them.
Docs == {"d1", "d2"}
DocEntry(d, n) == [filename |-> d, topic_count |-> n]

\* Answers of the three reloads that end a drain; "thrown" is a rejected
\* promise, caught and logged by each loader.
StatsResponses ==
    { [thrown |-> FALSE, success |-> TRUE,  total_documents |-> IF backendIndex = "full" THEN 1 ELSE 0],
      [thrown |-> FALSE, success |-> FALSE, total_documents |-> 0],
      [thrown |-> TRUE,  success |-> FALSE, total_documents |-> 0] }
FilesResponses ==
    { [thrown |-> FALSE, success |-> TRUE,  files |-> <<"u1">>],
      [thrown |-> FALSE, success |-> FALSE, files |-> <<>>],
      [thrown |-> TRUE,  success |-> FALSE, files |-> <<>>] }
DocsResponses ==
    { [thrown |-> FALSE, success |-> TRUE,
       documents |-> IF backendIndex = "full" THEN <<DocEntry("d1", 2), DocEntry("d2", 2)>> ELSE <<>>],
      [thrown |-> FALSE, success |-> FALSE, documents |-> <<>>],
      [thrown |-> TRUE,  success |-> FALSE, documents |-> <<>>] }

\* Topic names the backend reports or the user types.
TopicNames == {"t1", "t2"}

\* Texts typed into the inputs of the edit-topics modal, and String.prototype.trim
\* on them.
InputTexts == {" t1", "t3", " "}
Trim(text) ==
    CASE text = " t1" -> "t1"
      [] text = " "   -> ""
      [] OTHER        -> text

\* TopicSuggestion built from a name list: { name, relevance_score: 1 - idx * 0.05,
\* description: '' }, the score kept in hundredths.
ToSuggestions(names) ==
    [k \in 1..Len(names) |-> [name |-> names[k], relevance_score |-> 100 - 5 * (k - 1)]]
NamesOf(topics) == [k \in 1..Len(topics) |-> topics[k].name]

\* Answers of getDocumentTopics.
TopicsResponses ==
    { [thrown |-> FALSE, success |-> TRUE,  topics |-> <<"t1", "t2">>],
      [thrown |-> FALSE, success |-> FALSE, topics |-> <<>>],
      [thrown |-> TRUE,  success |-> FALSE, topics |-> <<>>] }

\* Answers of updateDocumentTopics.
UpdateResponses ==
    { [thrown |-> FALSE, success |-> TRUE],
      [thrown |-> FALSE, success |-> FALSE],
      [thrown |-> TRUE,  success |-> FALSE] }

\* Answers of generateQuiz: questions is the number of questions returned.
GenerateResponses ==
    { [thrown |-> FALSE, success |-> TRUE,  questions |-> 1, error |-> NULL],
      [thrown |-> FALSE, success |-> TRUE,  questions |-> 0, error |-> NULL],
      [thrown |-> FALSE, success |-> FALSE, questions |-> 0, error |-> "E"],
      [thrown |-> TRUE,  success |-> FALSE, questions |-> 0, error |-> NULL] }

\* LLM providers, and the LLMProviderInfo / OllamaStatus bodies in use.
Providers == {"ollama", "groq"}
NoInfo == [current_provider |-> NULL, current_model |-> NULL, groq_configured |-> FALSE]
NoStatus == [connected |-> FALSE, message |-> NULL]
\* The model each provider runs.
ModelOf(provider) == IF provider = "groq" THEN "groq-model" ELSE "ollama-model"

\* Answers of setLLMProvider (SetLLMProviderResponse).
SetProviderResponses ==
    { [thrown |-> FALSE, success |-> TRUE,  error |-> NULL],
      [thrown |-> FALSE, success |-> FALSE, error |-> "E"],
      [thrown |-> FALSE, success |-> FALSE, error |-> NULL],
      [thrown |-> TRUE,  success |-> FALSE, error |-> NULL] }

\* Answers of checkOllamaStatus: connected, not connected, or a thrown error.
StatusResponses ==
    { [thrown |-> FALSE, connected |-> TRUE],
      [thrown |-> FALSE, connected |-> FALSE],
      [thrown |-> TRUE,  connected |-> FALSE] }

\* No updateDocumentTopics / generateQuiz call outstanding.
NoSaveCall == [doc |-> NULL, topics |-> <<>>]
NoGenCall == [topics |-> <<>>, selected_documents |-> <<>>, sent |-> FALSE]
NoChatCall == [message |-> NULL, history |-> <<>>]
\* The empty Record<string, TopicSuggestion[]>.
EmptyRecord == [d \in {} |-> <<>>]
NoSnapshot == [docs |-> <<>>, topics |-> <<>>, byDoc |-> EmptyRecord]

VARIABLES
    \* ---- upload queue (ChatPanel.tsx 239-241, 288, 298)
    selectedFile, selectedFiles, isProcessingQueue, isUploading, uploadMessage,
    \* ---- the running handleUploadAndIndex call
    drainPc,              \* "idle", "awaitIndex", "delay", "awaitStats", "awaitFiles", "awaitDocs"
    drainI,               \* loop variable i (1-based)
    drainSnap,            \* selectedFiles as captured by the handler's closure
    successCount, alreadyIndexedCount, errorCount,
    indexCall,            \* the outstanding uploadAndIndexDocument call: NULL or [file, idx]
    drainWaiting,         \* indices that were 'waiting' when the running/last drain began
    \* ---- status cells reloaded after a drain (ChatPanel.tsx 263, 293, 295)
    indexStats, uploadedFiles, indexedDocuments,
    \* ---- loads started by the mount effect (ChatPanel.tsx 309-315) and not yet answered
    statsLoads, docsLoads, filesLoads,
    \* ---- document and topic selection (ChatPanel.tsx 264-273)
    selectedDocuments, selectedTopics, topicsCache, topicsByDocument,
    showTopicModal, tempSelectedDocuments, tempSelectedTopics, tempTopicsByDocument,
    topicCalls,           \* outstanding getDocumentTopics calls, per document
    liveAtOpen,           \* the live selection as openTopicModal found it
    editSession,          \* "none", "editing" (modal open), "discarded" (modal cancelled)
    \* ---- edit-topics modal (ChatPanel.tsx 276-282)
    showEditTopicsModal, editingDocumentFilename, editingTopics, newTopicInput,
    editingTopicIndex, editingTopicValue, isSavingTopics,
    saveCall,             \* the outstanding updateDocumentTopics call
    \* ---- quiz generation (ChatPanel.tsx 251-257, 285)
    quizTopic, generatedQuiz, isGeneratingQuiz, quizError, showQuizModal,
    genCall,              \* the outstanding generateQuiz call
    \* ---- LLM provider (ChatPanel.tsx 294, 302-304)
    llmProviderInfo, ollamaStatus, isSwitchingProvider, providerMessage,
    switchPc,             \* "idle", "awaitSet", "awaitInfo", "awaitStatus"
    switchProvider,       \* the provider argument of the running handleSwitchProvider
    infoLoads, statusLoads,   \* outstanding loadLLMProviderInfo / loadOllamaStatus calls outside a switch
    messageTimers,        \* pending setTimeout(() => setProviderMessage(null), 5000)
    backendProvider,      \* the provider active on the backend
    \* ---- chat (AppContext.tsx 33-34, ChatPanel.tsx 9-10)
    chatMessages, chatToolsUsed, input, loading,
    chatCall              \* the outstanding chatApi.sendMessage call

queueVars == <<selectedFile, selectedFiles, isProcessingQueue, isUploading, uploadMessage,
               drainPc, drainI, drainSnap, successCount, alreadyIndexedCount, errorCount,
               indexCall, drainWaiting, indexStats, uploadedFiles, indexedDocuments>>

loadVars == <<statsLoads, docsLoads, filesLoads>>

selVars == <<selectedDocuments, selectedTopics, topicsCache, topicsByDocument,
             showTopicModal, tempSelectedDocuments, tempSelectedTopics, tempTopicsByDocument,
             topicCalls, liveAtOpen, editSession>>

editVars == <<showEditTopicsModal, editingDocumentFilename, editingTopics, newTopicInput,
              editingTopicIndex, editingTopicValue, isSavingTopics, saveCall>>

genVars == <<quizTopic, generatedQuiz, isGeneratingQuiz, quizError, showQuizModal, genCall>>

providerVars == <<llmProviderInfo, ollamaStatus, isSwitchingProvider, providerMessage,
                  switchPc, switchProvider, infoLoads, statusLoads, messageTimers,
                  backendProvider>>

resetVars == <<isResetting, resetPc, backendIndex>>

chatVars == <<chatMessages, chatToolsUsed, input, loading, chatCall>>

nonQueueVars == <<loadVars, selVars, editVars, genVars, providerVars, resetVars, chatVars>>

\* The cells of the upload queue and its drain, without the status cells.
uploadVars == <<selectedFile, selectedFiles, isProcessingQueue, isUploading, uploadMessage,
                drainPc, drainI, drainSnap, successCount, alreadyIndexedCount, errorCount,
                indexCall, drainWaiting, uploadedFiles>>

vars == <<queueVars, loadVars, selVars, editVars, genVars, providerVars, resetVars, chatVars>>

(***************************************************************************)
(* Initial state: the useState initialisers                                 *)
(***************************************************************************)
InitQueue ==
    /\ selectedFile = NoFile
    /\ selectedFiles = <<>>
    /\ isProcessingQueue = FALSE
    /\ isUploading = FALSE
    /\ uploadMessage = NoMessage
    /\ drainPc = "idle"
    /\ drainI = 0
    /\ drainSnap = <<>>
    /\ successCount = 0
    /\ alreadyIndexedCount = 0
    /\ errorCount = 0
    /\ indexCall = NoCall
    /\ drainWaiting = {}
    /\ indexStats = NoStats
    /\ uploadedFiles = <<>>
    /\ indexedDocuments = <<>>

InitLoads ==
    /\ statsLoads = 1
    /\ docsLoads = 1
    /\ filesLoads = 1

InitSelection ==
    /\ selectedDocuments = <<>>
    /\ selectedTopics = <<>>
    /\ topicsCache = EmptyRecord
    /\ topicsByDocument = EmptyRecord
    /\ showTopicModal = FALSE
    /\ tempSelectedDocuments = <<>>
    /\ tempSelectedTopics = <<>>
    /\ tempTopicsByDocument = EmptyRecord
    /\ topicCalls = [d \in Docs |-> 0]
    /\ liveAtOpen = NoSnapshot
    /\ editSession = "none"

InitEdit ==
    /\ showEditTopicsModal = FALSE
    /\ editingDocumentFilename = ""
    /\ editingTopics = <<>>
    /\ newTopicInput = ""
    /\ editingTopicIndex = 0
    /\ editingTopicValue = ""
    /\ isSavingTopics = FALSE
    /\ saveCall = NoSaveCall

InitGenerate ==
    /\ quizTopic = ""
    /\ generatedQuiz = 0
    /\ isGeneratingQuiz = FALSE
    /\ quizError = NULL
    /\ showQuizModal = FALSE
    /\ genCall = NoGenCall

\* The backend runs its default provider when the panel mounts.
InitProvider ==
    /\ llmProviderInfo = NoInfo
    /\ ollamaStatus = NoStatus
    /\ isSwitchingProvider = FALSE
    /\ providerMessage = NoMessage
    /\ switchPc = "idle"
    /\ switchProvider = NULL
    /\ infoLoads = 1
    /\ statusLoads = 1
    /\ messageTimers = 0
    /\ backendProvider = "ollama"

InitChat ==
    /\ chatMessages = <<>>
    /\ chatToolsUsed = <<>>
    /\ input = ""
    /\ loading = FALSE
    /\ chatCall = NoChatCall

\* The backend index holds its documents when the panel mounts.
InitReset ==
    /\ isResetting = FALSE
    /\ resetPc = "idle"
    /\ backendIndex = "full"

Init == InitQueue /\ InitLoads /\ InitSelection /\ InitEdit /\ InitGenerate /\ InitProvider
            /\ InitReset /\ InitChat

(***************************************************************************)
(* Upload queue                                                             *)
(***************************************************************************)
\* selectedFiles.some(f => f.file.name === file.name && f.file.size === file.size)
ExistsInQueue(file) == \E k \in 1..Len(selectedFiles) : SameIdentity(selectedFiles[k].file, file)

NewItem(file) == [file |-> file, status |-> "waiting", message |-> NoItemMessage, details |-> NoDetails]

\* The for-loop of handleFileSelect: a PDF not already in selectedFiles is pushed
\* to newFiles (the test reads selectedFiles only, never newFiles).
NewFilesOf(files) ==
    LET keep == SelectSeq(files, LAMBDA f : IsPdf(f) /\ ~ExistsInQueue(f))
    IN  [k \in 1..Len(keep) |-> NewItem(keep[k])]

RejectedNamesOf(files) ==
    LET bad == SelectSeq(files, LAMBDA f : ~IsPdf(f))
    IN  [k \in 1..Len(bad) |-> FileName(bad[k])]

\* <input type="file" disabled={isProcessingQueue}>
FileInputEnabled == ~isProcessingQueue

handleFileSelect(files) ==
    /\ FileInputEnabled
    /\ Len(selectedFiles) + Len(files) <= MaxQueue
    /\ LET newFiles == NewFilesOf(files)
           errors   == RejectedNamesOf(files)
       IN  /\ uploadMessage' = IF Len(errors) > 0
                                 THEN [type |-> "error", text |-> "unsupported", names |-> errors]
                                 ELSE NoMessage
           /\ IF Len(newFiles) > 0
                 THEN /\ selectedFiles' = selectedFiles \o newFiles
                      /\ selectedFile' = IF selectedFile = NoFile THEN newFiles[1].file ELSE selectedFile
                 ELSE UNCHANGED <<selectedFiles, selectedFile>>
    /\ UNCHANGED <<isProcessingQueue, isUploading, drainPc, drainI, drainSnap,
                   successCount, alreadyIndexedCount, errorCount, indexCall, drainWaiting,
                   indexStats, uploadedFiles, indexedDocuments>>
    /\ UNCHANGED nonQueueVars

\* prev.filter((_, i) => i !== index)
RemoveAt(s, index) == [k \in 1..(Len(s) - 1) |-> IF k < index THEN s[k] ELSE s[k + 1]]

\* Variant of RemoveButtonShown that forgets the status test.
RemoveButtonShownAnyStatus(index) ==
    /\ index \in 1..Len(selectedFiles)
    /\ ~isProcessingQueue

\* {fileItem.status === 'waiting' && !isProcessingQueue && (<button ... />)}
RemoveButtonShown(index) ==
    /\ index \in 1..Len(selectedFiles)
    /\ selectedFiles[index].status = "waiting"
    /\ ~isProcessingQueue

removeFileFromQueue(index) ==
    /\ RemoveButtonShown(index)
    /\ LET newList == RemoveAt(selectedFiles, index)
       IN  /\ selectedFiles' = newList
           /\ selectedFile' =
                 IF Len(newList) = 0 THEN NoFile
                 ELSE IF selectedFile # NoFile /\ selectedFiles[index].file = selectedFile
                      THEN newList[1].file
                      ELSE selectedFile
    /\ UNCHANGED <<isProcessingQueue, isUploading, uploadMessage, drainPc, drainI, drainSnap,
                   successCount, alreadyIndexedCount, errorCount, indexCall, drainWaiting,
                   indexStats, uploadedFiles, indexedDocuments>>
    /\ UNCHANGED nonQueueVars

\* Variant of ClearButtonShown that is rendered during a drain too.
ClearButtonShownAlways == Len(selectedFiles) > 0

\* {selectedFiles.length > 0 && ... {!isProcessingQueue && (<button onClick={clearAllFiles}>)}}
ClearButtonShown == Len(selectedFiles) > 0 /\ ~isProcessingQueue

clearAllFiles ==
    /\ ClearButtonShown
    /\ selectedFiles' = <<>>
    /\ selectedFile' = NoFile
    /\ uploadMessage' = NoMessage
    /\ UNCHANGED <<isProcessingQueue, isUploading, drainPc, drainI, drainSnap,
                   successCount, alreadyIndexedCount, errorCount, indexCall, drainWaiting,
                   indexStats, uploadedFiles, indexedDocuments>>
    /\ UNCHANGED nonQueueVars

(***************************************************************************)
(* Queue processor: handleUploadAndIndex                                    *)
(***************************************************************************)
\* Variant of SetUploading that writes a terminal status at once.
SetUploadingAsDone(f) == [f EXCEPT !.status = "success"]

SetUploading(f) == [f EXCEPT !.status = "uploading"]

\* Variant of MarkUploadingAt that starts every waiting item from i on at once.
MarkUploadingFrom(list, i) ==
    [k \in 1..Len(list) |->
        IF k >= i /\ list[k].status = "waiting" THEN SetUploading(list[k]) ELSE list[k]]

\* prev.map((f, idx) => idx === i ? { ...f, status: 'uploading' } : f)
MarkUploadingAt(list, i) ==
    [k \in 1..Len(list) |-> IF k = i THEN SetUploading(list[k]) ELSE list[k]]

\* The item written for the answer r of uploadAndIndexDocument (lines 705-750).
\* { ...f, status, message, details } keeps the fields it does not name.
ApplyResponse(f, r) ==
    IF r.thrown
    THEN [f EXCEPT !.status = "error", !.message = [text |-> "connection_error", args |-> <<>>]]
    ELSE IF r.success
         THEN IF r.already_indexed
              THEN [f EXCEPT !.status = "already_indexed",
                             !.message = [text |-> "already_in_database", args |-> <<>>],
                             !.details = [present |-> TRUE, filename |-> "stored",
                                          pages_loaded |-> 0, chunks_added |-> 0]]
              ELSE [f EXCEPT !.status = "success",
                             !.message = [text |-> "pages_chunks", args |-> <<r.pages_loaded, r.chunks_added>>],
                             !.details = [present |-> TRUE, filename |-> "stored", pages_loaded |-> r.pages_loaded,
                                          chunks_added |-> r.chunks_added]]
         ELSE [f EXCEPT !.status = "error",
                        !.message = [text |-> IF r.error # NULL THEN r.error ELSE "unknown_error",
                                     args |-> <<>>]]

\* prev.map((f, idx) => idx === i ? { ...f, status, message, details } : f)
ApplyResponseAt(list, i, r) ==
    [k \in 1..Len(list) |-> IF k = i THEN ApplyResponse(list[k], r) ELSE list[k]]

\* Which counter the answer r increments.
Outcome(r) ==
    IF r.thrown THEN "error"
    ELSE IF r.success THEN (IF r.already_indexed THEN "already_indexed" ELSE "success")
         ELSE "error"

\* Variant of LoopFrom that submits failed items again.
LoopFromRetryFailed(snap, files, i) ==
    LET cand == {j \in i..Len(snap) : snap[j].status \in {"waiting", "error"}}
    IN  IF cand # {}
        THEN LET j == CHOOSE m \in cand : \A n \in cand : m <= n
             IN  [files |-> MarkUploadingAt(files, j), pc |-> "awaitIndex", i |-> j,
                  call |-> [file |-> snap[j].file, idx |-> j]]
        ELSE [files |-> files, pc |-> "awaitStats", i |-> Len(snap) + 1, call |-> NoCall]

\* Variant of LoopFrom that submits the last waiting item first.
LoopFromLast(snap, files, i) ==
    LET cand == {j \in i..Len(snap) : snap[j].status = "waiting"}
    IN  IF cand # {}
        THEN LET j == CHOOSE m \in cand : \A n \in cand : m >= n
             IN  [files |-> MarkUploadingAt(files, j), pc |-> "awaitIndex", i |-> j,
                  call |-> [file |-> snap[j].file, idx |-> j]]
        ELSE [files |-> files, pc |-> "awaitStats", i |-> Len(snap) + 1, call |-> NoCall]

\* Variant of LoopFrom that leaves the loop once the previous item has failed.
LoopFromAbortOnError(snap, files, i) ==
    LET cand == {j \in i..Len(snap) : snap[j].status = "waiting"}
        prevFailed == i > 1 /\ i - 1 <= Len(files) /\ files[i - 1].status = "error"
    IN  IF cand # {} /\ ~prevFailed
        THEN LET j == CHOOSE m \in cand : \A n \in cand : m <= n
             IN  [files |-> MarkUploadingAt(files, j), pc |-> "awaitIndex", i |-> j,
                  call |-> [file |-> snap[j].file, idx |-> j]]
        ELSE [files |-> files, pc |-> "awaitStats", i |-> Len(snap) + 1, call |-> NoCall]

\* The for-loop from index i up to its next await: items of the captured
\* list whose status is not 'waiting' are skipped (continue); the first
\* waiting one is marked 'uploading' in the current list and submitted.  When
\* the loop runs out, loadIndexStats() is called.
LoopFrom(snap, files, i) ==
    LET cand == {j \in i..Len(snap) : snap[j].status = "waiting"}
    IN  IF cand # {}
        THEN LET j == CHOOSE m \in cand : \A n \in cand : m <= n
             IN  [files |-> MarkUploadingAt(files, j), pc |-> "awaitIndex", i |-> j,
                  call |-> [file |-> snap[j].file, idx |-> j]]
        ELSE [files |-> files, pc |-> "awaitStats", i |-> Len(snap) + 1, call |-> NoCall]

\* Variant of BuildIndexEnabled that leaves the button enabled during a drain.
BuildIndexEnabledWhileUploading ==
    /\ Len(selectedFiles) # 0
    /\ \E k \in 1..Len(selectedFiles) : selectedFiles[k].status = "waiting"

\* disabled={selectedFiles.length === 0 || isUploading || selectedFiles.every(f => f.status !== 'waiting')}
BuildIndexEnabled ==
    /\ Len(selectedFiles) # 0
    /\ ~isUploading
    /\ \E k \in 1..Len(selectedFiles) : selectedFiles[k].status = "waiting"

\* Click on Build Index: the handler up to its first await.
handleUploadAndIndex ==
    /\ BuildIndexEnabled
    /\ IF Len(selectedFiles) = 0
          THEN /\ uploadMessage' = [type |-> "error", text |-> "choose_pdf", names |-> <<>>]
               /\ UNCHANGED <<selectedFiles, isProcessingQueue, isUploading, drainPc, drainI, drainSnap,
                              successCount, alreadyIndexedCount, errorCount, indexCall, drainWaiting>>
          ELSE LET st == LoopFrom(selectedFiles, selectedFiles, 1)
               IN  /\ isUploading' = TRUE
                   /\ isProcessingQueue' = TRUE
                   /\ uploadMessage' = NoMessage
                   /\ successCount' = 0
                   /\ alreadyIndexedCount' = 0
                   /\ errorCount' = 0
                   /\ drainSnap' = selectedFiles
                   /\ drainWaiting' = {k \in 1..Len(selectedFiles) : selectedFiles[k].status = "waiting"}
                   /\ selectedFiles' = st.files
                   /\ drainPc' = st.pc
                   /\ drainI' = st.i
                   /\ indexCall' = st.call
    /\ UNCHANGED <<selectedFile, indexStats, uploadedFiles, indexedDocuments>>
    /\ UNCHANGED nonQueueVars

\* uploadAndIndexDocument answers r (or throws): the item gets its outcome,
\* then the loop either waits 300 ms (i < selectedFiles.length - 1) or ends.
IndexRespond(r) ==
    /\ drainPc = "awaitIndex"
    /\ indexCall # NoCall
    /\ selectedFiles' = ApplyResponseAt(selectedFiles, drainI, r)
    /\ successCount' = successCount + (IF Outcome(r) = "success" THEN 1 ELSE 0)
    /\ alreadyIndexedCount' = alreadyIndexedCount + (IF Outcome(r) = "already_indexed" THEN 1 ELSE 0)
    /\ errorCount' = errorCount + (IF Outcome(r) = "error" THEN 1 ELSE 0)
    /\ indexCall' = NoCall
    /\ IF drainI < Len(drainSnap)
          THEN drainPc' = "delay" /\ drainI' = drainI
          ELSE drainPc' = "awaitStats" /\ drainI' = drainI + 1
    /\ UNCHANGED <<selectedFile, isProcessingQueue, isUploading, uploadMessage, drainSnap,
                   drainWaiting, indexStats, uploadedFiles, indexedDocuments>>
    /\ UNCHANGED nonQueueVars

\* The 300 ms timer fires: i++ and the loop goes on.
DelayElapsed ==
    /\ drainPc = "delay"
    /\ LET st == LoopFrom(drainSnap, selectedFiles, drainI + 1)
       IN  /\ selectedFiles' = st.files
           /\ drainPc' = st.pc
           /\ drainI' = st.i
           /\ indexCall' = st.call
    /\ UNCHANGED <<selectedFile, isProcessingQueue, isUploading, uploadMessage, drainSnap,
                   successCount, alreadyIndexedCount, errorCount, drainWaiting,
                   indexStats, uploadedFiles, indexedDocuments>>
    /\ UNCHANGED nonQueueVars

\* Variant of DrainStatsRespond in which loadIndexStats lets a throw escape:
\* the handler ends at the await and never reaches setIsUploading(false).
DrainStatsRespondUncaught(r) ==
    /\ drainPc = "awaitStats"
    /\ indexStats' = IF ~r.thrown /\ r.success THEN r.total_documents ELSE indexStats
    /\ drainPc' = IF r.thrown THEN "idle" ELSE "awaitFiles"
    /\ UNCHANGED <<selectedFile, selectedFiles, isProcessingQueue, isUploading, uploadMessage,
                   drainI, drainSnap, successCount, alreadyIndexedCount, errorCount, indexCall,
                   drainWaiting, uploadedFiles, indexedDocuments>>
    /\ UNCHANGED nonQueueVars

\* loadIndexStats inside the drain: getRAGStats answers.
DrainStatsRespond(r) ==
    /\ drainPc = "awaitStats"
    /\ indexStats' = IF ~r.thrown /\ r.success THEN r.total_documents ELSE indexStats
    /\ drainPc' = "awaitFiles"
    /\ UNCHANGED <<selectedFile, selectedFiles, isProcessingQueue, isUploading, uploadMessage,
                   drainI, drainSnap, successCount, alreadyIndexedCount, errorCount, indexCall,
                   drainWaiting, uploadedFiles, indexedDocuments>>
    /\ UNCHANGED nonQueueVars

\* loadUploadedFiles inside the drain: listUploadedFiles answers.
DrainFilesRespond(r) ==
    /\ drainPc = "awaitFiles"
    /\ uploadedFiles' = IF ~r.thrown /\ r.success THEN r.files ELSE uploadedFiles
    /\ drainPc' = "awaitDocs"
    /\ UNCHANGED <<selectedFile, selectedFiles, isProcessingQueue, isUploading, uploadMessage,
                   drainI, drainSnap, successCount, alreadyIndexedCount, errorCount, indexCall,
                   drainWaiting, indexStats, indexedDocuments>>
    /\ UNCHANGED nonQueueVars

\* Variant of SummaryMessage that reports success whenever something was indexed.
SummaryMessageOptimistic(s, a, e, prev) ==
    IF s > 0 THEN [type |-> "success", text |-> "all_indexed", names |-> <<s>>]
    ELSE IF a > 0 THEN [type |-> "info", text |-> "already_present", names |-> <<a>>]
    ELSE IF e > 0 THEN [type |-> "info", text |-> "processed_with_errors", names |-> <<s, a, e>>]
    ELSE prev

\* The summary chosen from the three counters (lines 767-792); prev is kept
\* when nothing was processed.
SummaryMessage(s, a, e, prev) ==
    IF e = 0 /\ s + a + e > 0
    THEN IF a > 0 /\ s = 0
         THEN [type |-> "info", text |-> "already_present", names |-> <<a>>]
         ELSE IF a > 0
              THEN [type |-> "success", text |-> "new_and_present", names |-> <<s, a>>]
              ELSE [type |-> "success", text |-> "all_indexed", names |-> <<s>>]
    ELSE IF e > 0
         THEN [type |-> "info", text |-> "processed_with_errors", names |-> <<s, a, e>>]
         ELSE prev

\* loadIndexedDocuments inside the drain: listIndexedDocuments answers, then
\* the handler unlocks the queue and writes the summary.  The handler returns:
\* its loop variable and captured list are gone.
DrainDocsRespond(r) ==
    /\ drainPc = "awaitDocs"
    /\ indexedDocuments' = IF ~r.thrown /\ r.success THEN r.documents ELSE indexedDocuments
    /\ isUploading' = FALSE
    /\ isProcessingQueue' = FALSE
    /\ uploadMessage' = SummaryMessage(successCount, alreadyIndexedCount, errorCount, uploadMessage)
    /\ drainPc' = "idle"
    /\ drainI' = 0
    /\ drainSnap' = <<>>
    /\ UNCHANGED <<selectedFile, selectedFiles, successCount,
                   alreadyIndexedCount, errorCount, indexCall, drainWaiting,
                   indexStats, uploadedFiles>>
    /\ UNCHANGED nonQueueVars

NextQueue ==
    \/ \E files \in Batches : handleFileSelect(files)
    \/ \E index \in 1..MaxQueue : removeFileFromQueue(index)
    \/ clearAllFiles
    \/ handleUploadAndIndex
    \/ \E r \in IndexResponses : IndexRespond(r)
    \/ DelayElapsed
    \/ \E r \in StatsResponses : DrainStatsRespond(r)
    \/ \E r \in FilesResponses : DrainFilesRespond(r)
    \/ \E r \in DocsResponses : DrainDocsRespond(r)

SpecQueue == Init /\ [][NextQueue]_vars

\* Every call the drain awaits returns or throws, and the 300 ms timer fires:
\* each continuation of handleUploadAndIndex runs once it can.
DrainFairness ==
    /\ WF_vars(\E r \in IndexResponses : IndexRespond(r))
    /\ WF_vars(DelayElapsed)
    /\ WF_vars(\E r \in StatsResponses : DrainStatsRespond(r))
    /\ WF_vars(\E r \in FilesResponses : DrainFilesRespond(r))
    /\ WF_vars(\E r \in DocsResponses : DrainDocsRespond(r))

SpecQueueFair == Init /\ [][NextQueue]_vars /\ DrainFairness

(***************************************************************************)
(* Loaders started by the mount effect                                      *)
(***************************************************************************)
\* loadIndexStats (mount): getRAGStats answers.
LoadIndexStatsRespond(r) ==
    /\ statsLoads > 0
    /\ statsLoads' = statsLoads - 1
    /\ indexStats' = IF ~r.thrown /\ r.success THEN r.total_documents ELSE indexStats
    /\ UNCHANGED <<uploadVars, indexedDocuments, docsLoads, filesLoads, selVars, editVars,
                   genVars, providerVars, resetVars, chatVars>>

\* loadIndexedDocuments (mount): listIndexedDocuments answers.
LoadIndexedDocumentsRespond(r) ==
    /\ docsLoads > 0
    /\ docsLoads' = docsLoads - 1
    /\ indexedDocuments' = IF ~r.thrown /\ r.success THEN r.documents ELSE indexedDocuments
    /\ UNCHANGED <<uploadVars, indexStats, statsLoads, filesLoads, selVars, editVars,
                   genVars, providerVars, resetVars, chatVars>>

(***************************************************************************)
(* Topic-selection modal                                                    *)
(***************************************************************************)
\* Variant of Put that appends v to the entry already stored under k.
PutMerging(rec, k, v) ==
    [x \in (DOMAIN rec) \cup {k} |->
        IF x = k THEN (IF k \in DOMAIN rec THEN rec[k] \o v ELSE v) ELSE rec[x]]

\* { ...prev, [k]: v }
Put(rec, k, v) == [x \in (DOMAIN rec) \cup {k} |-> IF x = k THEN v ELSE rec[x]]
\* const updated = { ...prev }; delete updated[k]
Delete(rec, k) == [x \in (DOMAIN rec) \ {k} |-> rec[x]]
\* rec[k] || []
Get(rec, k) == IF k \in DOMAIN rec THEN rec[k] ELSE <<>>

Pair(topic, documentFilename) == [topic |-> topic, documentFilename |-> documentFilename]

\* indexedDocuments.map(doc => ...): the documents that have a card in the modal.
Listed(d) == \E k \in 1..Len(indexedDocuments) : indexedDocuments[k].filename = d

LiveSelection == [docs |-> selectedDocuments, topics |-> selectedTopics, byDoc |-> topicsByDocument]

\* The page under a modal overlay takes no clicks.
NoModalOpen == ~showTopicModal /\ ~showEditTopicsModal
\* The topic modal is the top layer.
TopicModalOnTop == showTopicModal /\ ~showEditTopicsModal

clearSelectedTopics ==
    /\ NoModalOpen
    /\ Len(selectedTopics) > 0
    /\ selectedTopics' = <<>>
    /\ selectedDocuments' = <<>>
    /\ topicsByDocument' = EmptyRecord
    /\ quizTopic' = ""
    /\ editSession' = "none"
    /\ liveAtOpen' = NoSnapshot
    /\ UNCHANGED <<queueVars, loadVars, providerVars, resetVars, chatVars, editVars, topicsCache, showTopicModal,
                   tempSelectedDocuments, tempSelectedTopics, tempTopicsByDocument, topicCalls,
                   generatedQuiz, isGeneratingQuiz, quizError, showQuizModal, genCall>>

openTopicModal ==
    /\ NoModalOpen
    /\ Len(selectedTopics) > 0 \/ Len(indexedDocuments) # 0
    /\ tempSelectedDocuments' = selectedDocuments
    /\ tempSelectedTopics' = selectedTopics
    /\ tempTopicsByDocument' = topicsByDocument
    /\ showTopicModal' = TRUE
    /\ liveAtOpen' = LiveSelection
    /\ editSession' = "editing"
    /\ UNCHANGED <<queueVars, loadVars, providerVars, resetVars, chatVars, editVars, genVars, selectedDocuments, selectedTopics,
                   topicsCache, topicsByDocument, topicCalls>>

closeTopicModal ==
    /\ TopicModalOnTop
    /\ showTopicModal' = FALSE
    /\ tempSelectedDocuments' = <<>>
    /\ tempSelectedTopics' = <<>>
    /\ tempTopicsByDocument' = EmptyRecord
    /\ editSession' = "discarded"
    /\ UNCHANGED <<queueVars, loadVars, providerVars, resetVars, chatVars, editVars, genVars, selectedDocuments, selectedTopics,
                   topicsCache, topicsByDocument, topicCalls, liveAtOpen>>

\* disabled={tempSelectedTopics.length === 0}
SaveSelectionsEnabled == Len(tempSelectedTopics) # 0

\* Variant of saveTopicSelections that commits the document list only.
saveTopicSelectionsDocumentsOnly ==
    /\ TopicModalOnTop
    /\ SaveSelectionsEnabled
    /\ selectedDocuments' = tempSelectedDocuments
    /\ topicsByDocument' = tempTopicsByDocument
    /\ showTopicModal' = FALSE
    /\ editSession' = "none"
    /\ liveAtOpen' = NoSnapshot
    /\ UNCHANGED <<queueVars, loadVars, providerVars, resetVars, chatVars, editVars, genVars, topicsCache, selectedTopics,
                   tempSelectedDocuments, tempSelectedTopics, tempTopicsByDocument, topicCalls>>

saveTopicSelections ==
    /\ TopicModalOnTop
    /\ SaveSelectionsEnabled
    /\ selectedDocuments' = tempSelectedDocuments
    /\ selectedTopics' = tempSelectedTopics
    /\ topicsByDocument' = tempTopicsByDocument
    /\ showTopicModal' = FALSE
    /\ editSession' = "none"
    /\ liveAtOpen' = NoSnapshot
    /\ UNCHANGED <<queueVars, loadVars, providerVars, resetVars, chatVars, editVars, genVars, topicsCache,
                   tempSelectedDocuments, tempSelectedTopics, tempTopicsByDocument, topicCalls>>

\* Variant of WithoutDocument that keeps the selections of the removed document.
WithoutDocumentKeepingTopics(selections, filename) == selections

\* st.filter(t => t.documentFilename !== filename)
WithoutDocument(selections, filename) ==
    SelectSeq(selections, LAMBDA t : t.documentFilename # filename)

\* Variant of NeedsTopicsCall that ignores the cache.
NeedsTopicsCallAlways(filename) == TRUE

\* Whether selecting filename sends getDocumentTopics: if (!topicsCache[filename])
NeedsTopicsCall(filename) == filename \notin DOMAIN topicsCache

toggleDocumentInModal(filename) ==
    /\ TopicModalOnTop
    /\ Listed(filename)
    /\ IF filename \in Range(tempSelectedDocuments)
          THEN /\ tempSelectedDocuments' = SelectSeq(tempSelectedDocuments, LAMBDA f : f # filename)
               /\ tempSelectedTopics' = WithoutDocument(tempSelectedTopics, filename)
               /\ tempTopicsByDocument' = Delete(tempTopicsByDocument, filename)
               /\ UNCHANGED topicCalls
          ELSE /\ tempSelectedDocuments' = Append(tempSelectedDocuments, filename)
               /\ IF NeedsTopicsCall(filename)
                     THEN /\ topicCalls[filename] < MaxTopicCalls
                          /\ topicCalls' = [topicCalls EXCEPT ![filename] = @ + 1]
                          /\ UNCHANGED tempTopicsByDocument
                     ELSE /\ tempTopicsByDocument' = Put(tempTopicsByDocument, filename, topicsCache[filename])
                          /\ UNCHANGED topicCalls
               /\ UNCHANGED tempSelectedTopics
    /\ UNCHANGED <<queueVars, loadVars, providerVars, resetVars, chatVars, editVars, genVars, selectedDocuments, selectedTopics,
                   topicsCache, topicsByDocument, showTopicModal, liveAtOpen, editSession>>

\* getDocumentTopics(filename) answers (or throws): the rest of toggleDocumentInModal.
TopicsRespond(filename, r) ==
    /\ topicCalls[filename] > 0
    /\ topicCalls' = [topicCalls EXCEPT ![filename] = @ - 1]
    /\ IF ~r.thrown /\ r.success
          THEN /\ topicsCache' = Put(topicsCache, filename, ToSuggestions(r.topics))
               /\ tempTopicsByDocument' = Put(tempTopicsByDocument, filename, ToSuggestions(r.topics))
          ELSE UNCHANGED <<topicsCache, tempTopicsByDocument>>
    /\ UNCHANGED <<queueVars, loadVars, providerVars, resetVars, chatVars, editVars, genVars, selectedDocuments, selectedTopics,
                   topicsByDocument, showTopicModal, tempSelectedDocuments, tempSelectedTopics,
                   liveAtOpen, editSession>>

\* tempSelectedTopics.some(t => t.topic === topic && t.documentFilename === documentFilename)
isTopicSelectedInModal(topic, documentFilename) ==
    \E k \in 1..Len(tempSelectedTopics) : tempSelectedTopics[k] = Pair(topic, documentFilename)

areAllTopicsSelectedInModal(docFilename) ==
    LET docTopics == Get(tempTopicsByDocument, docFilename)
    IN  /\ Len(docTopics) # 0
        /\ \A k \in 1..Len(docTopics) : isTopicSelectedInModal(docTopics[k].name, docFilename)

\* The other arm of the same conditional: the card of a selected document with
\* no topics shows the "loading topics" spinner.
LoadingTopicsShown(docFilename) ==
    /\ showTopicModal
    /\ Listed(docFilename)
    /\ docFilename \in Range(tempSelectedDocuments)
    /\ Len(Get(tempTopicsByDocument, docFilename)) = 0

\* {isDocSelected && ... docTopics.length > 0 ? (toolbar, topic tags) : (loading)}
TopicsShown(docFilename) ==
    /\ TopicModalOnTop
    /\ Listed(docFilename)
    /\ docFilename \in Range(tempSelectedDocuments)
    /\ Len(Get(tempTopicsByDocument, docFilename)) > 0

\* The updater of toggleTopicInModal: the pair is removed if prev holds it,
\* appended otherwise.
ToggleTopic(prev, topic, documentFilename) ==
    IF \E k \in 1..Len(prev) : prev[k] = Pair(topic, documentFilename)
    THEN SelectSeq(prev, LAMBDA t : t # Pair(topic, documentFilename))
    ELSE Append(prev, Pair(topic, documentFilename))

\* Click on a topic tag of the modal.
toggleTopicInModal(topic, documentFilename) ==
    /\ TopicsShown(documentFilename)
    /\ topic \in Range(NamesOf(Get(tempTopicsByDocument, documentFilename)))
    /\ Len(ToggleTopic(tempSelectedTopics, topic, documentFilename)) <= MaxSelections
    /\ tempSelectedTopics' = ToggleTopic(tempSelectedTopics, topic, documentFilename)
    /\ UNCHANGED <<queueVars, loadVars, providerVars, resetVars, chatVars, editVars, genVars, selectedDocuments, selectedTopics,
                   topicsCache, topicsByDocument, showTopicModal, tempSelectedDocuments,
                   tempTopicsByDocument, topicCalls, liveAtOpen, editSession>>

\* toggleTopicInModal as a function of its arguments: the handler applied,
\* while the modal is open, to any topic and any document name, whatever
\* the modal shows.
toggleTopicInModalCall(topic, documentFilename) ==
    /\ TopicModalOnTop
    /\ Len(ToggleTopic(tempSelectedTopics, topic, documentFilename)) <= MaxSelections
    /\ tempSelectedTopics' = ToggleTopic(tempSelectedTopics, topic, documentFilename)
    /\ UNCHANGED <<queueVars, loadVars, providerVars, resetVars, chatVars, editVars, genVars, selectedDocuments, selectedTopics,
                   topicsCache, topicsByDocument, showTopicModal, tempSelectedDocuments,
                   tempTopicsByDocument, topicCalls, liveAtOpen, editSession>>

selectAllTopicsInModal(docFilename) ==
    /\ TopicsShown(docFilename)
    /\ ~areAllTopicsSelectedInModal(docFilename)
    /\ LET docTopics == Get(tempTopicsByDocument, docFilename)
           fresh == SelectSeq(docTopics, LAMBDA t : ~isTopicSelectedInModal(t.name, docFilename))
           newSelections == [k \in 1..Len(fresh) |-> Pair(fresh[k].name, docFilename)]
       IN  /\ Len(tempSelectedTopics) + Len(newSelections) <= MaxSelections
           /\ tempSelectedTopics' = tempSelectedTopics \o newSelections
    /\ UNCHANGED <<queueVars, loadVars, providerVars, resetVars, chatVars, editVars, genVars, selectedDocuments, selectedTopics,
                   topicsCache, topicsByDocument, showTopicModal, tempSelectedDocuments,
                   tempTopicsByDocument, topicCalls, liveAtOpen, editSession>>

deselectAllTopicsInModal(docFilename) ==
    /\ TopicsShown(docFilename)
    /\ areAllTopicsSelectedInModal(docFilename)
    /\ tempSelectedTopics' = SelectSeq(tempSelectedTopics, LAMBDA t : t.documentFilename # docFilename)
    /\ UNCHANGED <<queueVars, loadVars, providerVars, resetVars, chatVars, editVars, genVars, selectedDocuments, selectedTopics,
                   topicsCache, topicsByDocument, showTopicModal, tempSelectedDocuments,
                   tempTopicsByDocument, topicCalls, liveAtOpen, editSession>>

(***************************************************************************)
(* Edit-topics modal                                                        *)
(***************************************************************************)
\* The fields closeEditTopicsModal resets, as one value.
ClosedEditModal ==
    [show |-> FALSE, filename |-> "", topics |-> <<>>, input |-> "", index |-> 0, value |-> ""]

openEditTopicsModal(filename) ==
    /\ TopicsShown(filename)
    /\ LET docTopics == IF filename \in DOMAIN tempTopicsByDocument THEN tempTopicsByDocument[filename]
                        ELSE Get(topicsCache, filename)
       IN  editingTopics' = NamesOf(docTopics)
    /\ editingDocumentFilename' = filename
    /\ newTopicInput' = ""
    /\ editingTopicIndex' = 0
    /\ editingTopicValue' = ""
    /\ showEditTopicsModal' = TRUE
    /\ UNCHANGED <<queueVars, loadVars, providerVars, resetVars, chatVars, selVars, genVars, isSavingTopics, saveCall>>

closeEditTopicsModal ==
    /\ showEditTopicsModal
    /\ showEditTopicsModal' = ClosedEditModal.show
    /\ editingDocumentFilename' = ClosedEditModal.filename
    /\ editingTopics' = ClosedEditModal.topics
    /\ newTopicInput' = ClosedEditModal.input
    /\ editingTopicIndex' = ClosedEditModal.index
    /\ editingTopicValue' = ClosedEditModal.value
    /\ UNCHANGED <<queueVars, loadVars, providerVars, resetVars, chatVars, selVars, genVars, isSavingTopics, saveCall>>

\* onChange={(e) => setNewTopicInput(e.target.value)}
setNewTopicInput(text) ==
    /\ showEditTopicsModal
    /\ newTopicInput' = text
    /\ UNCHANGED <<queueVars, loadVars, providerVars, resetVars, chatVars, selVars, genVars, showEditTopicsModal,
                   editingDocumentFilename, editingTopics, editingTopicIndex, editingTopicValue,
                   isSavingTopics, saveCall>>

\* disabled={!newTopicInput.trim()}
addNewTopic ==
    /\ showEditTopicsModal
    /\ Trim(newTopicInput) # ""
    /\ LET trimmed == Trim(newTopicInput)
       IN  IF trimmed # "" /\ trimmed \notin Range(editingTopics)
           THEN /\ Len(editingTopics) < MaxTopics
                /\ editingTopics' = Append(editingTopics, trimmed)
                /\ newTopicInput' = ""
           ELSE UNCHANGED <<editingTopics, newTopicInput>>
    /\ UNCHANGED <<queueVars, loadVars, providerVars, resetVars, chatVars, selVars, genVars, showEditTopicsModal,
                   editingDocumentFilename, editingTopicIndex, editingTopicValue,
                   isSavingTopics, saveCall>>

\* editingTopics.filter((_, i) => i !== index)
removeTopic(index) ==
    /\ showEditTopicsModal
    /\ index \in 1..Len(editingTopics)
    /\ editingTopics' = [k \in 1..(Len(editingTopics) - 1) |->
                            IF k < index THEN editingTopics[k] ELSE editingTopics[k + 1]]
    /\ UNCHANGED <<queueVars, loadVars, providerVars, resetVars, chatVars, selVars, genVars, showEditTopicsModal,
                   editingDocumentFilename, newTopicInput, editingTopicIndex, editingTopicValue,
                   isSavingTopics, saveCall>>

startEditTopic(index) ==
    /\ showEditTopicsModal
    /\ index \in 1..Len(editingTopics)
    /\ editingTopicIndex' = index
    /\ editingTopicValue' = editingTopics[index]
    /\ UNCHANGED <<queueVars, loadVars, providerVars, resetVars, chatVars, selVars, genVars, showEditTopicsModal,
                   editingDocumentFilename, editingTopics, newTopicInput, isSavingTopics, saveCall>>

\* onChange={(e) => setEditingTopicValue(e.target.value)}, shown for the row being edited
setEditingTopicValue(text) ==
    /\ showEditTopicsModal
    /\ editingTopicIndex \in 1..Len(editingTopics)
    /\ editingTopicValue' = text
    /\ UNCHANGED <<queueVars, loadVars, providerVars, resetVars, chatVars, selVars, genVars, showEditTopicsModal,
                   editingDocumentFilename, editingTopics, newTopicInput, editingTopicIndex,
                   isSavingTopics, saveCall>>

saveEditTopic ==
    /\ showEditTopicsModal
    /\ editingTopicIndex \in 1..Len(editingTopics)
    /\ editingTopics' = IF editingTopicIndex # 0 /\ Trim(editingTopicValue) # ""
                           THEN [editingTopics EXCEPT ![editingTopicIndex] = Trim(editingTopicValue)]
                           ELSE editingTopics
    /\ editingTopicIndex' = 0
    /\ editingTopicValue' = ""
    /\ UNCHANGED <<queueVars, loadVars, providerVars, resetVars, chatVars, selVars, genVars, showEditTopicsModal,
                   editingDocumentFilename, newTopicInput, isSavingTopics, saveCall>>

cancelEditTopic ==
    /\ showEditTopicsModal
    /\ editingTopicIndex \in 1..Len(editingTopics)
    /\ editingTopicIndex' = 0
    /\ editingTopicValue' = ""
    /\ UNCHANGED <<queueVars, loadVars, providerVars, resetVars, chatVars, selVars, genVars, showEditTopicsModal,
                   editingDocumentFilename, editingTopics, newTopicInput, isSavingTopics, saveCall>>

\* Click on save in the edit-topics modal (disabled={isSavingTopics}): the
\* handler up to await updateDocumentTopics(editingDocumentFilename, editingTopics).
saveTopicsToBackend ==
    /\ showEditTopicsModal
    /\ ~isSavingTopics
    /\ IF editingDocumentFilename = ""
          THEN UNCHANGED <<isSavingTopics, saveCall>>
          ELSE /\ isSavingTopics' = TRUE
               /\ saveCall' = [doc |-> editingDocumentFilename, topics |-> editingTopics]
    /\ UNCHANGED <<queueVars, loadVars, providerVars, resetVars, chatVars, selVars, genVars, showEditTopicsModal,
                   editingDocumentFilename, editingTopics, newTopicInput, editingTopicIndex,
                   editingTopicValue>>

\* prev.map(doc => doc.filename === filename ? { ...doc, topic_count: n } : doc)
WithTopicCount(documents, filename, n) ==
    [k \in 1..Len(documents) |->
        IF documents[k].filename = filename THEN [documents[k] EXCEPT !.topic_count = n]
        ELSE documents[k]]

\* updateDocumentTopics answers (or throws): the rest of saveTopicsToBackend.
\* The handler uses the filename and the list of the render it was clicked in.
SaveTopicsRespond(r) ==
    /\ saveCall # NoSaveCall
    /\ saveCall' = NoSaveCall
    /\ isSavingTopics' = FALSE
    /\ IF ~r.thrown /\ r.success
          THEN LET updatedTopics == ToSuggestions(saveCall.topics)
               IN  /\ topicsCache' = Put(topicsCache, saveCall.doc, updatedTopics)
                   /\ tempTopicsByDocument' = Put(tempTopicsByDocument, saveCall.doc, updatedTopics)
                   /\ topicsByDocument' = Put(topicsByDocument, saveCall.doc, updatedTopics)
                   /\ indexedDocuments' = WithTopicCount(indexedDocuments, saveCall.doc, Len(saveCall.topics))
                   /\ showEditTopicsModal' = ClosedEditModal.show
                   /\ editingDocumentFilename' = ClosedEditModal.filename
                   /\ editingTopics' = ClosedEditModal.topics
                   /\ newTopicInput' = ClosedEditModal.input
                   /\ editingTopicIndex' = ClosedEditModal.index
                   /\ editingTopicValue' = ClosedEditModal.value
          ELSE UNCHANGED <<topicsCache, tempTopicsByDocument, topicsByDocument, indexedDocuments,
                           showEditTopicsModal, editingDocumentFilename, editingTopics,
                           newTopicInput, editingTopicIndex, editingTopicValue>>
    /\ UNCHANGED <<uploadVars, providerVars, resetVars, chatVars, indexStats, loadVars, genVars, selectedDocuments, selectedTopics,
                   showTopicModal, tempSelectedDocuments, tempSelectedTopics, topicCalls,
                   liveAtOpen, editSession>>

(***************************************************************************)
(* Quiz generation                                                          *)
(***************************************************************************)
\* Variant of TopicsList that falls back to a default topic.
TopicsListWithDefault ==
    IF Len(selectedTopics) > 0 THEN [k \in 1..Len(selectedTopics) |-> selectedTopics[k].topic]
    ELSE IF Trim(quizTopic) # "" THEN <<Trim(quizTopic)>> ELSE <<"general">>

\* selectedTopics.length > 0 ? selectedTopics.map(t => t.topic)
\*                           : quizTopic.trim() ? [quizTopic.trim()] : []
TopicsList ==
    IF Len(selectedTopics) > 0 THEN [k \in 1..Len(selectedTopics) |-> selectedTopics[k].topic]
    ELSE IF Trim(quizTopic) # "" THEN <<Trim(quizTopic)>> ELSE <<>>

\* The handler up to await generateQuiz(...).  It is taken as callable whenever
\* no generation is running: the empty selection is refused by the handler's
\* own test, which the button's disabled attribute repeats.
handleGenerateQuiz ==
    /\ ~isGeneratingQuiz
    /\ IF Len(TopicsList) = 0
          THEN /\ quizError' = "empty_selection"
               /\ UNCHANGED <<isGeneratingQuiz, generatedQuiz, genCall>>
          ELSE /\ isGeneratingQuiz' = TRUE
               /\ quizError' = NULL
               /\ generatedQuiz' = 0
               /\ genCall' = [topics |-> TopicsList, selected_documents |-> selectedDocuments,
                              sent |-> TRUE]
    /\ UNCHANGED <<queueVars, loadVars, providerVars, resetVars, chatVars, selVars, editVars, quizTopic, showQuizModal>>

\* generateQuiz answers (or throws): the rest of handleGenerateQuiz.
GenerateRespond(r) ==
    /\ genCall # NoGenCall
    /\ genCall' = NoGenCall
    /\ isGeneratingQuiz' = FALSE
    /\ IF r.thrown
          THEN /\ quizError' = "generation_failed"
               /\ UNCHANGED <<generatedQuiz, showQuizModal>>
          ELSE IF r.success /\ r.questions > 0
               THEN /\ generatedQuiz' = r.questions
                    /\ showQuizModal' = TRUE
                    /\ UNCHANGED quizError
               ELSE /\ quizError' = IF r.error # NULL THEN r.error ELSE "cannot_generate"
                    /\ UNCHANGED <<generatedQuiz, showQuizModal>>
    /\ UNCHANGED <<queueVars, loadVars, providerVars, resetVars, chatVars, selVars, editVars, quizTopic>>

\* onClick={() => setShowQuizModal(false)}
closeQuizModal ==
    /\ showQuizModal
    /\ showQuizModal' = FALSE
    /\ UNCHANGED <<queueVars, loadVars, providerVars, resetVars, chatVars, selVars, editVars, quizTopic, generatedQuiz,
                   isGeneratingQuiz, quizError, genCall>>

\* The topic-selection modal, with the edit-topics modal opened and saved from it.
NextSelection ==
    \/ \E r \in DocsResponses : LoadIndexedDocumentsRespond(r)
    \/ clearSelectedTopics
    \/ openTopicModal
    \/ closeTopicModal
    \/ saveTopicSelections
    \/ \E d \in Docs : toggleDocumentInModal(d)
    \/ \E d \in Docs, r \in TopicsResponses : TopicsRespond(d, r)
    \/ \E t \in TopicNames, d \in Docs : toggleTopicInModal(t, d)
    \/ \E d \in Docs : selectAllTopicsInModal(d)
    \/ \E d \in Docs : deselectAllTopicsInModal(d)
    \/ \E d \in Docs : openEditTopicsModal(d)
    \/ closeEditTopicsModal
    \/ saveTopicsToBackend
    \/ \E r \in UpdateResponses : SaveTopicsRespond(r)

SpecSelection == Init /\ [][NextSelection]_vars

\* The topic-selection modal alone: its documents, topics and selections.
NextModal ==
    \/ \E r \in DocsResponses : LoadIndexedDocumentsRespond(r)
    \/ clearSelectedTopics
    \/ openTopicModal
    \/ closeTopicModal
    \/ saveTopicSelections
    \/ \E d \in Docs : toggleDocumentInModal(d)
    \/ \E d \in Docs, r \in TopicsResponses : TopicsRespond(d, r)
    \/ \E t \in TopicNames, d \in Docs : toggleTopicInModal(t, d)
    \/ \E d \in Docs : selectAllTopicsInModal(d)
    \/ \E d \in Docs : deselectAllTopicsInModal(d)

SpecModal == Init /\ [][NextModal]_vars

\* The topic-selection modal with toggleTopicInModal applied to arbitrary
\* arguments.
NextToggleTopic ==
    \/ \E r \in DocsResponses : LoadIndexedDocumentsRespond(r)
    \/ openTopicModal
    \/ closeTopicModal
    \/ \E d \in Docs : toggleDocumentInModal(d)
    \/ \E d \in Docs, r \in TopicsResponses : TopicsRespond(d, r)
    \/ \E t \in TopicNames, d \in Docs : toggleTopicInModalCall(t, d)

SpecToggleTopic == Init /\ [][NextToggleTopic]_vars

\* Quiz generation over a selection made in the topic modal; the selection is
\* built from the first listed document.
NextGenerate ==
    \/ \E r \in DocsResponses : LoadIndexedDocumentsRespond(r)
    \/ clearSelectedTopics
    \/ openTopicModal
    \/ closeTopicModal
    \/ saveTopicSelections
    \/ toggleDocumentInModal("d1")
    \/ \E r \in TopicsResponses : TopicsRespond("d1", r)
    \/ \E t \in TopicNames : toggleTopicInModal(t, "d1")
    \/ handleGenerateQuiz
    \/ \E r \in GenerateResponses : GenerateRespond(r)
    \/ closeQuizModal

SpecGenerate == Init /\ [][NextGenerate]_vars

\* The edit-topics modal, opened from the topic modal on the first listed
\* document: topics are added and removed, and the list is saved.
NextEdit ==
    \/ \E r \in DocsResponses : LoadIndexedDocumentsRespond(r)
    \/ openTopicModal
    \/ toggleDocumentInModal("d1")
    \/ \E r \in TopicsResponses : TopicsRespond("d1", r)
    \/ openEditTopicsModal("d1")
    \/ closeEditTopicsModal
    \/ \E text \in InputTexts : setNewTopicInput(text)
    \/ addNewTopic
    \/ \E index \in 1..(MaxTopics + 1) : removeTopic(index)
    \/ saveTopicsToBackend
    \/ \E r \in UpdateResponses : SaveTopicsRespond(r)

SpecEdit == Init /\ [][NextEdit]_vars

\* Selecting topics of the first listed document while its topic list is
\* shortened, or a topic of it renamed to " t1", in the edit-topics modal.
NextEditSelect ==
    \/ \E r \in DocsResponses : LoadIndexedDocumentsRespond(r)
    \/ openTopicModal
    \/ closeTopicModal
    \/ saveTopicSelections
    \/ toggleDocumentInModal("d1")
    \/ \E r \in TopicsResponses : TopicsRespond("d1", r)
    \/ \E t \in TopicNames : toggleTopicInModal(t, "d1")
    \/ selectAllTopicsInModal("d1")
    \/ deselectAllTopicsInModal("d1")
    \/ openEditTopicsModal("d1")
    \/ closeEditTopicsModal
    \/ \E index \in 1..(MaxTopics + 1) : removeTopic(index)
    \/ \E index \in 1..(MaxTopics + 1) : startEditTopic(index)
    \/ setEditingTopicValue(" t1")
    \/ saveEditTopic
    \/ cancelEditTopic
    \/ saveTopicsToBackend
    \/ \E r \in UpdateResponses : SaveTopicsRespond(r)

SpecEditSelect == Init /\ [][NextEditSelect]_vars

(***************************************************************************)
(* LLM provider                                                             *)
(***************************************************************************)
\* The cells no provider handler or loader writes.
nonProviderVars == <<uploadVars, indexedDocuments, docsLoads, selVars, editVars, genVars, resetVars, chatVars>>

\* What getLLMProviderInfo reports: the provider active on the backend.
BackendInfo ==
    [current_provider |-> backendProvider, current_model |-> ModelOf(backendProvider),
     groq_configured |-> TRUE]

\* <select value={llmProviderInfo?.current_provider || 'ollama'}>
ShownProvider ==
    IF llmProviderInfo.current_provider # NULL THEN llmProviderInfo.current_provider ELSE "ollama"

\* <option value="groq" disabled={!llmProviderInfo?.groq_configured}>
OptionEnabled(provider) == provider = "groq" => llmProviderInfo.groq_configured

\* loadLLMProviderInfo: setLlmProviderInfo(info), or the error is logged.
InfoAfter(thrown) == IF thrown THEN llmProviderInfo ELSE BackendInfo

\* loadOllamaStatus: setOllamaStatus(status), or the not-connected status of the catch.
StatusAfter(r) ==
    IF r.thrown THEN [connected |-> FALSE, message |-> "cannot_connect"]
    ELSE [connected |-> r.connected, message |-> "reported"]

\* Variant of ProviderErrorMessage that reports a failed switch as a success.
ProviderErrorMessageAsSuccess(r, provider) ==
    [type |-> "success", text |-> "switched", names |-> <<provider>>]

\* The message of the else branch (response.error || ...) and of the catch.
ProviderErrorMessage(r, provider) ==
    IF r.thrown THEN [type |-> "error", text |-> "switch_threw", names |-> <<provider>>]
    ELSE [type |-> "error", text |-> IF r.error # NULL THEN r.error ELSE "cannot_switch",
          names |-> <<provider>>]

\* onChange of the provider select (disabled={isSwitchingProvider}): the
\* handler up to await setLLMProvider({ provider }).
handleSwitchProvider(provider) ==
    /\ ~isSwitchingProvider
    /\ switchPc = "idle"
    /\ provider # ShownProvider
    /\ OptionEnabled(provider)
    /\ messageTimers < MaxTimers
    /\ isSwitchingProvider' = TRUE
    /\ providerMessage' = NoMessage
    /\ switchPc' = "awaitSet"
    /\ switchProvider' = provider
    /\ UNCHANGED <<nonProviderVars, indexStats, statsLoads, filesLoads, llmProviderInfo,
                   ollamaStatus, infoLoads, statusLoads, messageTimers, backendProvider>>

\* setLLMProvider answers (or throws).  On success the backend runs the new
\* provider and the handler goes on to reload; otherwise the error message is
\* set and the finally block ends the switch.
SetProviderRespond(r) ==
    /\ switchPc = "awaitSet"
    /\ IF ~r.thrown /\ r.success
          THEN /\ backendProvider' = switchProvider
               /\ providerMessage' = [type |-> "success", text |-> "switched",
                                      names |-> <<switchProvider>>]
               /\ switchPc' = "awaitInfo"
               /\ UNCHANGED <<isSwitchingProvider, messageTimers, switchProvider>>
          ELSE /\ providerMessage' = ProviderErrorMessage(r, switchProvider)
               /\ isSwitchingProvider' = FALSE
               /\ messageTimers' = messageTimers + 1
               /\ switchPc' = "idle"
               /\ switchProvider' = NULL
               /\ UNCHANGED backendProvider
    /\ UNCHANGED <<nonProviderVars, indexStats, statsLoads, filesLoads, llmProviderInfo,
                   ollamaStatus, infoLoads, statusLoads>>

\* await loadLLMProviderInfo() inside the switch.
SwitchInfoRespond(thrown) ==
    /\ switchPc = "awaitInfo"
    /\ llmProviderInfo' = InfoAfter(thrown)
    /\ switchPc' = "awaitStatus"
    /\ UNCHANGED <<nonProviderVars, indexStats, statsLoads, filesLoads, ollamaStatus,
                   isSwitchingProvider, providerMessage, switchProvider, infoLoads, statusLoads,
                   messageTimers, backendProvider>>

\* await loadOllamaStatus() inside the switch, then the finally block.
SwitchStatusRespond(r) ==
    /\ switchPc = "awaitStatus"
    /\ ollamaStatus' = StatusAfter(r)
    /\ isSwitchingProvider' = FALSE
    /\ messageTimers' = messageTimers + 1
    /\ switchPc' = "idle"
    /\ switchProvider' = NULL
    /\ UNCHANGED <<nonProviderVars, indexStats, statsLoads, filesLoads, llmProviderInfo,
                   providerMessage, infoLoads, statusLoads, backendProvider>>

\* setTimeout(() => setProviderMessage(null), 5000) fires.
ProviderMessageTimeout ==
    /\ messageTimers > 0
    /\ messageTimers' = messageTimers - 1
    /\ providerMessage' = NoMessage
    /\ UNCHANGED <<nonProviderVars, indexStats, statsLoads, filesLoads, llmProviderInfo,
                   ollamaStatus, isSwitchingProvider, switchPc, switchProvider, infoLoads,
                   statusLoads, backendProvider>>

\* loadLLMProviderInfo outside a switch (mount effect, refresh button) answers.
LoadInfoRespond(thrown) ==
    /\ infoLoads > 0
    /\ infoLoads' = infoLoads - 1
    /\ llmProviderInfo' = InfoAfter(thrown)
    /\ UNCHANGED <<nonProviderVars, indexStats, statsLoads, filesLoads, ollamaStatus,
                   isSwitchingProvider, providerMessage, switchPc, switchProvider, statusLoads,
                   messageTimers, backendProvider>>

\* loadOllamaStatus outside a switch answers.
LoadStatusRespond(r) ==
    /\ statusLoads > 0
    /\ statusLoads' = statusLoads - 1
    /\ ollamaStatus' = StatusAfter(r)
    /\ UNCHANGED <<nonProviderVars, indexStats, statsLoads, filesLoads, llmProviderInfo,
                   isSwitchingProvider, providerMessage, switchPc, switchProvider, infoLoads,
                   messageTimers, backendProvider>>

\* loadUploadedFiles outside a drain answers.
LoadUploadedFilesRespond(r) ==
    /\ filesLoads > 0
    /\ filesLoads' = filesLoads - 1
    /\ uploadedFiles' = IF ~r.thrown /\ r.success THEN r.files ELSE uploadedFiles
    /\ UNCHANGED <<selectedFile, selectedFiles, isProcessingQueue, isUploading, uploadMessage,
                   drainPc, drainI, drainSnap, successCount, alreadyIndexedCount, errorCount,
                   indexCall, drainWaiting, indexStats, indexedDocuments, statsLoads, docsLoads,
                   selVars, editVars, genVars, providerVars, resetVars, chatVars>>

\* The refresh button: loadIndexStats(); loadOllamaStatus(); loadUploadedFiles();
\* loadLLMProviderInfo();
refreshStatus ==
    /\ statsLoads < MaxLoads /\ statusLoads < MaxLoads
    /\ filesLoads < MaxLoads /\ infoLoads < MaxLoads
    /\ statsLoads' = statsLoads + 1
    /\ statusLoads' = statusLoads + 1
    /\ filesLoads' = filesLoads + 1
    /\ infoLoads' = infoLoads + 1
    /\ UNCHANGED <<nonProviderVars, indexStats, llmProviderInfo, ollamaStatus,
                   isSwitchingProvider, providerMessage, switchPc, switchProvider,
                   messageTimers, backendProvider>>

NextProvider ==
    \/ \E provider \in Providers : handleSwitchProvider(provider)
    \/ \E r \in SetProviderResponses : SetProviderRespond(r)
    \/ \E thrown \in BOOLEAN : SwitchInfoRespond(thrown)
    \/ \E r \in StatusResponses : SwitchStatusRespond(r)
    \/ ProviderMessageTimeout
    \/ \E thrown \in BOOLEAN : LoadInfoRespond(thrown)
    \/ \E r \in StatusResponses : LoadStatusRespond(r)
    \/ \E r \in StatsResponses : LoadIndexStatsRespond(r)
    \/ \E r \in FilesResponses : LoadUploadedFilesRespond(r)
    \/ refreshStatus

SpecProvider == Init /\ [][NextProvider]_vars

(***************************************************************************)
(* ChatPanel                                                                *)
(***************************************************************************)
\* Texts typed into the chat textarea ("  " is blank after trim).
ChatInputs == {"hi", "ho", "  "}
ChatTrim(text) == IF text = "  " THEN "" ELSE text

\* Answers of chatApi.sendMessage (ChatResponse), or a thrown error;
\* tools_used may be missing (response.tools_used || []).
ChatResponses ==
    { [thrown |-> FALSE, response |-> "reply", tools_used |-> <<"tool">>],
      [thrown |-> FALSE, response |-> "reply", tools_used |-> <<>>],
      [thrown |-> TRUE,  response |-> NULL,    tools_used |-> <<>>] }

Message(role, content) == [role |-> role, content |-> content]

\* <textarea onChange={(e) => setInput(e.target.value)} disabled={loading}>
setInput(text) ==
    /\ ~loading
    /\ input' = text
    /\ UNCHANGED <<chatMessages, chatToolsUsed, loading, chatCall>>
    /\ UNCHANGED <<queueVars, loadVars, selVars, editVars, genVars, providerVars, resetVars>>

\* {chatMessages.length === 0 && ... <button onClick={() => setInput('...')}>}:
\* the suggestion buttons of the welcome card, not disabled while loading.
setInputFromSuggestion ==
    /\ Len(chatMessages) = 0
    /\ input' = "hi"
    /\ UNCHANGED <<chatMessages, chatToolsUsed, loading, chatCall>>
    /\ UNCHANGED <<queueVars, loadVars, selVars, editVars, genVars, providerVars, resetVars>>

\* handleSend up to its await; with a blank input or a request in flight it
\* returns at once.
handleSend ==
    /\ IF ChatTrim(input) = "" \/ loading
          THEN UNCHANGED chatVars
          ELSE /\ Len(chatMessages) + 2 <= MaxMessages
               /\ chatMessages' = Append(chatMessages, Message("user", input))
               /\ input' = ""
               /\ loading' = TRUE
               /\ chatToolsUsed' = <<>>
               /\ chatCall' = [message |-> input, history |-> chatMessages]
    /\ UNCHANGED <<queueVars, loadVars, selVars, editVars, genVars, providerVars, resetVars>>

\* chatApi.sendMessage answers (or throws): the reply or the apology is
\* appended, then finally runs setLoading(false).
ChatRespond(r) ==
    /\ chatCall # NoChatCall
    /\ chatCall' = NoChatCall
    /\ IF ~r.thrown
          THEN /\ chatMessages' = Append(chatMessages, Message("assistant", r.response))
               /\ chatToolsUsed' = r.tools_used
          ELSE /\ chatMessages' = Append(chatMessages, Message("assistant", "apology"))
               /\ UNCHANGED chatToolsUsed
    /\ loading' = FALSE
    /\ UNCHANGED input
    /\ UNCHANGED <<queueVars, loadVars, selVars, editVars, genVars, providerVars, resetVars>>

\* Click on the clear-history button (always enabled).
clearChat ==
    /\ chatMessages' = <<>>
    /\ chatToolsUsed' = <<>>
    /\ UNCHANGED <<input, loading, chatCall>>
    /\ UNCHANGED <<queueVars, loadVars, selVars, editVars, genVars, providerVars, resetVars>>

NextChat ==
    \/ \E text \in ChatInputs : setInput(text)
    \/ setInputFromSuggestion
    \/ handleSend
    \/ \E r \in ChatResponses : ChatRespond(r)
    \/ clearChat

SpecChat == Init /\ [][NextChat]_vars

(***************************************************************************)
(* Index reset: handleResetIndex                                            *)
(***************************************************************************)
\* Answers of resetRAGIndex.
ResetResponses ==
    { [thrown |-> FALSE, success |-> TRUE,  error |-> NULL],
      [thrown |-> FALSE, success |-> FALSE, error |-> "E"],
      [thrown |-> FALSE, success |-> FALSE, error |-> NULL],
      [thrown |-> TRUE,  success |-> FALSE, error |-> NULL] }

\* disabled={isResetting || (indexStats?.total_documents ?? 0) === 0}
ResetEnabled == ~isResetting /\ indexStats # NoStats /\ indexStats # 0

\* Click on Reset, confirmed in window.confirm: the handler up to its await.
handleResetIndex ==
    /\ NoModalOpen
    /\ ResetEnabled
    /\ isResetting' = TRUE
    /\ resetPc' = "awaitReset"
    /\ UNCHANGED <<queueVars, loadVars, selVars, editVars, genVars, providerVars, chatVars, backendIndex>>

\* resetRAGIndex answers (or throws).  On success the backend index is empty,
\* the message and the quiz are reset and loadIndexStats() is awaited; the
\* selection cells and indexedDocuments are not written.
ResetRespond(r) ==
    /\ resetPc = "awaitReset"
    /\ IF ~r.thrown /\ r.success
          THEN /\ backendIndex' = "empty"
               /\ uploadMessage' = [type |-> "success", text |-> "reset_done", names |-> <<>>]
               /\ generatedQuiz' = 0
               /\ resetPc' = "awaitStats"
               /\ UNCHANGED isResetting
          ELSE /\ uploadMessage' = [type |-> "error",
                                    text |-> IF ~r.thrown /\ r.error # NULL THEN r.error ELSE "reset_failed",
                                    names |-> <<>>]
               /\ isResetting' = FALSE
               /\ resetPc' = "idle"
               /\ UNCHANGED <<backendIndex, generatedQuiz>>
    /\ UNCHANGED <<selectedFile, selectedFiles, isProcessingQueue, isUploading,
                   drainPc, drainI, drainSnap, successCount, alreadyIndexedCount, errorCount,
                   indexCall, drainWaiting, indexStats, uploadedFiles, indexedDocuments>>
    /\ UNCHANGED <<quizTopic, isGeneratingQuiz, quizError, showQuizModal, genCall>>
    /\ UNCHANGED <<loadVars, selVars, editVars, providerVars, chatVars>>

\* loadIndexStats inside handleResetIndex: getRAGStats answers, then finally
\* runs setIsResetting(false).
ResetStatsRespond(r) ==
    /\ resetPc = "awaitStats"
    /\ indexStats' = IF ~r.thrown /\ r.success THEN r.total_documents ELSE indexStats
    /\ isResetting' = FALSE
    /\ resetPc' = "idle"
    /\ UNCHANGED <<uploadVars, indexedDocuments, loadVars, selVars, editVars, genVars,
                   providerVars, chatVars, backendIndex>>

\* A document is selected for the quiz, the index is reset, and a drain
\* reloads the list of indexed documents.
NextReset ==
    \/ \E r \in DocsResponses : LoadIndexedDocumentsRespond(r)
    \/ \E r \in StatsResponses : LoadIndexStatsRespond(r)
    \/ openTopicModal
    \/ toggleDocumentInModal("d1")
    \/ \E r \in TopicsResponses : TopicsRespond("d1", r)
    \/ toggleTopicInModal("t1", "d1")
    \/ saveTopicSelections
    \/ handleResetIndex
    \/ \E r \in ResetResponses : ResetRespond(r)
    \/ \E r \in StatsResponses : ResetStatsRespond(r)
    \/ handleFileSelect(<<F1, F3>>)
    \/ handleUploadAndIndex
    \/ \E r \in IndexResponses : IndexRespond(r)
    \/ DelayElapsed
    \/ \E r \in StatsResponses : DrainStatsRespond(r)
    \/ \E r \in FilesResponses : DrainFilesRespond(r)
    \/ \E r \in DocsResponses : DrainDocsRespond(r)

SpecReset == Init /\ [][NextReset]_vars

(***************************************************************************)
(* Properties of the upload queue and its drain                             *)
(***************************************************************************)
StatusAt(k) == selectedFiles[k].status
DrainRunning == drainPc # "idle"
LoopFinished == drainPc \in {"awaitStats", "awaitFiles", "awaitDocs"}
AnyUploading == \E k \in 1..Len(selectedFiles) : StatusAt(k) = "uploading"
CountWith(st) == Cardinality({k \in drainWaiting : k <= Len(selectedFiles) /\ StatusAt(k) = st})

\* C1: the upload queue never holds two items with the same identity (same
\* file name and same size), whatever sequence of enqueue, dequeue, clear and
\* drain steps has run.
C1_NoDuplicateIdentity ==
    \A i, j \in 1..Len(selectedFiles) :
        i # j => ~SameIdentity(selectedFiles[i].file, selectedFiles[j].file)

\* C2: in a drain, every item that was waiting when the drain began is in a
\* terminal status once the loop has finished; an item leaves 'waiting' only
\* after every earlier such item is terminal; and a terminal status, once
\* assigned during the drain, is not replaced.
C2_DrainTerminalInOrder ==
    /\ [](LoopFinished => \A k \in drainWaiting : k <= Len(selectedFiles) /\ StatusAt(k) \in Terminal)
    /\ [](DrainRunning => \A i, j \in drainWaiting :
              (i < j /\ StatusAt(j) # "waiting") => StatusAt(i) \in Terminal)
    /\ [][DrainRunning =>
              \A k \in drainWaiting :
                  StatusAt(k) \in Terminal => selectedFiles'[k].status = StatusAt(k)]_vars

C2_Witness ==
    /\ LoopFinished
    /\ Cardinality(drainWaiting) >= 2
    /\ \E i, j \in drainWaiting : i < j /\ StatusAt(i) = "success" /\ StatusAt(j) = "already_indexed"

\* C3: a failed index call fails only its own item: the answer of a call
\* changes no other item, every item that was waiting at the start is still
\* processed, and the three counters equal the number of items of this drain
\* in each terminal status.
C3_FailureIsolated ==
    /\ [](DrainRunning =>
              /\ successCount = CountWith("success")
              /\ alreadyIndexedCount = CountWith("already_indexed")
              /\ errorCount = CountWith("error"))
    /\ [](LoopFinished =>
              successCount + alreadyIndexedCount + errorCount = Cardinality(drainWaiting))
    /\ [][drainPc = "awaitIndex" /\ drainPc' # "awaitIndex" =>
              /\ Len(selectedFiles') = Len(selectedFiles)
              /\ \A k \in 1..Len(selectedFiles) : k # drainI => selectedFiles'[k] = selectedFiles[k]]_vars

C3_Witness ==
    /\ LoopFinished
    /\ errorCount = 1
    /\ successCount = 1
    /\ \E i, j \in drainWaiting : i < j /\ StatusAt(i) = "error" /\ StatusAt(j) = "success"

\* C4: a dequeue removes only an item whose status is 'waiting'; on an item
\* that is 'uploading' the dequeue is not available and the queue stays as
\* it is.
C4_DequeueOnlyWaiting ==
    /\ [][\A index \in 1..MaxQueue :
              removeFileFromQueue(index) => StatusAt(index) = "waiting"]_vars
    /\ [](\A index \in 1..Len(selectedFiles) :
              StatusAt(index) = "uploading" => ~ENABLED removeFileFromQueue(index))

C4_Witness ==
    /\ AnyUploading
    /\ \E k \in 1..Len(selectedFiles) : StatusAt(k) = "waiting"
    /\ \E k \in 1..Len(selectedFiles) : StatusAt(k) \in Terminal

\* C5: clear is not available while an item is 'uploading', and an
\* outstanding index call always belongs to the item still at its index in
\* the queue, which is 'uploading'.
C5_NoOrphanedInFlight ==
    /\ AnyUploading => ~ENABLED clearAllFiles
    /\ indexCall # NoCall =>
          /\ indexCall.idx \in 1..Len(selectedFiles)
          /\ selectedFiles[indexCall.idx].file = indexCall.file
          /\ StatusAt(indexCall.idx) = "uploading"

C5_Witness ==
    /\ indexCall # NoCall
    /\ Len(selectedFiles) >= 2
    /\ AnyUploading

(***************************************************************************)
(* Properties of the topic-selection modal                                  *)
(***************************************************************************)
\* C6: selecting the same uncached document again before the first answer
\* has arrived sends no second getDocumentTopics call: at most one call per
\* document is outstanding.
C6_SingleTopicsCall == \A d \in Docs : topicCalls[d] <= 1

\* C7: while the topic modal is open, and after it has been cancelled, the
\* live selectedDocuments, selectedTopics and topicsByDocument are what they
\* were when openTopicModal ran.
C7_CancelRestoresLive ==
    editSession \in {"editing", "discarded"} => LiveSelection = liveAtOpen

(***************************************************************************)
(* Properties of quiz generation                                            *)
(***************************************************************************)
\* C8: handleGenerateQuiz run with no topic selected sets the empty-selection
\* error in the same step and sends no generateQuiz call; every generateQuiz
\* call that is sent carries at least one topic.
C8_EmptySelectionRejected ==
    /\ [][(handleGenerateQuiz /\ Len(selectedTopics) = 0) =>
              /\ quizError' = "empty_selection"
              /\ genCall' = NoGenCall
              /\ isGeneratingQuiz' = FALSE]_vars
    /\ [](genCall # NoGenCall => Len(genCall.topics) > 0)

C8_Witness ==
    /\ Len(selectedTopics) = 0
    /\ quizError = "empty_selection"
    /\ genCall = NoGenCall
    /\ ~isGeneratingQuiz

(***************************************************************************)
(* Properties of the provider switch                                        *)
(***************************************************************************)
\* C9: the step in which handleSwitchProvider learns that setLLMProvider
\* answered success:false or threw leaves llmProviderInfo and ollamaStatus as
\* they were and sets an error providerMessage.
C9_FailedSwitchKeepsState ==
    [][(switchPc = "awaitSet" /\ switchPc' = "idle") =>
          /\ llmProviderInfo' = llmProviderInfo
          /\ ollamaStatus' = ollamaStatus
          /\ providerMessage'.type = "error"]_vars

C9_Witness ==
    /\ switchPc = "idle"
    /\ providerMessage.type = "error"
    /\ llmProviderInfo # NoInfo
    /\ llmProviderInfo.current_provider = backendProvider
    /\ ollamaStatus.connected

\* C10: whenever no switch is in flight and the provider info has been
\* loaded, the provider shown locally is the provider active on the backend.
C10_SwitchNeverHalfApplied ==
    (switchPc = "idle" /\ llmProviderInfo # NoInfo) =>
        llmProviderInfo.current_provider = backendProvider

(***************************************************************************)
(* Further properties of the queue processor                                *)
(***************************************************************************)
\* C11: at most one drain runs at a time: handleUploadAndIndex only ever
\* starts when no drain is running and no index call is outstanding, and
\* while a drain runs it cannot be invoked (its button is disabled), so no
\* second loop and no extra index call are started.
C11_SingleDrain ==
    /\ [][handleUploadAndIndex => (~DrainRunning /\ indexCall = NoCall /\ ~AnyUploading)]_vars
    /\ [](DrainRunning => ~ENABLED handleUploadAndIndex)

\* A drain is running, with an index call outstanding, while another item
\* of the queue is still waiting.
C11_Witness ==
    /\ DrainRunning
    /\ indexCall # NoCall
    /\ \E k \in 1..Len(selectedFiles) : StatusAt(k) = "waiting"

\* C12: in every reachable state at most one queue item is 'uploading' and
\* at most one uploadAndIndexDocument call is outstanding: the outstanding
\* call is the call for the one uploading item, and a call is issued only
\* when none is outstanding.
C12_OneInFlight ==
    /\ [](Cardinality({k \in 1..Len(selectedFiles) : StatusAt(k) = "uploading"}) <= 1)
    /\ [](\A k \in 1..Len(selectedFiles) :
              StatusAt(k) = "uploading" <=> (indexCall # NoCall /\ indexCall.idx = k))
    /\ [][(indexCall' # NoCall /\ indexCall' # indexCall) => indexCall = NoCall]_vars

\* The second item of three is in flight: one before it is done, one after it waits.
C12_Witness ==
    /\ Len(selectedFiles) = 3
    /\ StatusAt(1) \in Terminal
    /\ StatusAt(2) = "uploading"
    /\ StatusAt(3) = "waiting"
    /\ indexCall # NoCall /\ indexCall.idx = 2

\* C13: the status of a queue item only ever changes from 'waiting' to
\* 'uploading' and from 'uploading' to 'success', 'already_indexed' or
\* 'error'.  A step that keeps or extends the queue changes each item's
\* status in one of these two ways or not at all, and appends only waiting
\* items; a step that shortens the queue leaves the remaining items as they were.
C13_StatusTransitions ==
    [][LET Allowed(a, b) == \/ a = b
                            \/ a = "waiting" /\ b = "uploading"
                            \/ a = "uploading" /\ b \in Terminal
       IN  IF Len(selectedFiles') >= Len(selectedFiles)
           THEN /\ \A k \in 1..Len(selectedFiles) :
                       /\ selectedFiles'[k].file = selectedFiles[k].file
                       /\ Allowed(StatusAt(k), selectedFiles'[k].status)
                /\ \A k \in (Len(selectedFiles) + 1)..Len(selectedFiles') :
                       selectedFiles'[k].status = "waiting"
           ELSE \A k \in 1..Len(selectedFiles') :
                    \E j \in 1..Len(selectedFiles) : selectedFiles'[k] = selectedFiles[j]]_vars

\* In one drain of two items the first has gone from waiting through
\* uploading to a terminal status and the second is uploading.
C13_Witness ==
    /\ drainWaiting = {1, 2}
    /\ Len(selectedFiles) = 2
    /\ StatusAt(1) = "already_indexed"
    /\ StatusAt(2) = "uploading"

\* C14: across drains uploadAndIndexDocument is called once for each item
\* that is processed: a call is issued only for an item that is 'waiting',
\* which leaves 'waiting' with the call; an item gets a terminal status only
\* from the answer of its own outstanding call; and an item in a terminal
\* status is left untouched by every later step that keeps it in the queue,
\* so no later drain submits it again and a failed call is not retried.
C14_OneCallPerItem ==
    /\ [][(indexCall' # NoCall /\ indexCall' # indexCall) =>
              /\ indexCall'.idx \in 1..Len(selectedFiles)
              /\ StatusAt(indexCall'.idx) = "waiting"
              /\ indexCall'.file = selectedFiles[indexCall'.idx].file
              /\ selectedFiles'[indexCall'.idx].status = "uploading"]_vars
    /\ [][Len(selectedFiles') >= Len(selectedFiles) =>
              \A k \in 1..Len(selectedFiles) :
                  (StatusAt(k) \notin Terminal /\ selectedFiles'[k].status \in Terminal) =>
                      /\ indexCall = [file |-> selectedFiles[k].file, idx |-> k]
                      /\ indexCall' # indexCall]_vars
    /\ [][Len(selectedFiles') >= Len(selectedFiles) =>
              \A k \in 1..Len(selectedFiles) :
                  StatusAt(k) \in Terminal => selectedFiles'[k] = selectedFiles[k]]_vars

\* A later drain has skipped the failed first item and submitted the second.
C14_Witness ==
    /\ Len(selectedFiles) >= 2
    /\ StatusAt(1) = "error"
    /\ 1 \notin drainWaiting
    /\ indexCall # NoCall
    /\ indexCall.idx = 2

\* C15: the terminal status written for an answer of uploadAndIndexDocument
\* follows the flags of the answer, tested in this order: already_indexed
\* true gives 'already_indexed' with a message; otherwise success true gives
\* 'success' with the pages_loaded / chunks_added details; otherwise the
\* item is 'error' with the answer's error text; a thrown call gives 'error'
\* with the connection message.
C15_StatusFollowsFlags ==
    [][\A r \in IndexResponses :
          IndexRespond(r) =>
              LET item == selectedFiles'[drainI]
              IN  /\ r.thrown =>
                        item.status = "error" /\ item.message.text = "connection_error"
                  /\ (~r.thrown /\ r.already_indexed) =>
                        item.status = "already_indexed" /\ item.message # NoItemMessage
                  /\ (~r.thrown /\ ~r.already_indexed /\ r.success) =>
                        /\ item.status = "success"
                        /\ item.details.present
                        /\ item.details.pages_loaded = r.pages_loaded
                        /\ item.details.chunks_added = r.chunks_added
                  /\ (~r.thrown /\ ~r.already_indexed /\ ~r.success) =>
                        /\ item.status = "error"
                        /\ r.error # NULL => item.message.text = r.error]_vars

\* C16: the message written at the end of a drain is chosen from the three
\* counters alone: no error and nothing already indexed reports that all
\* were indexed; no error and something already indexed reports the
\* already-present or the mixed case; any error reports the three counts.
C16_SummaryFromCounts ==
    [][(drainPc = "awaitDocs" /\ drainPc' = "idle") =>
          /\ (errorCount = 0 /\ alreadyIndexedCount = 0) =>
                uploadMessage' = [type |-> "success", text |-> "all_indexed",
                                  names |-> <<successCount>>]
          /\ (errorCount = 0 /\ alreadyIndexedCount > 0) =>
                \/ uploadMessage' = [type |-> "info", text |-> "already_present",
                                     names |-> <<alreadyIndexedCount>>]
                \/ uploadMessage' = [type |-> "success", text |-> "new_and_present",
                                     names |-> <<successCount, alreadyIndexedCount>>]
          /\ errorCount > 0 =>
                uploadMessage' = [type |-> "info", text |-> "processed_with_errors",
                                  names |-> <<successCount, alreadyIndexedCount, errorCount>>]]_vars

\* A drain of three items has ended with one item in each category.
C16_Witness ==
    /\ drainPc = "idle"
    /\ ~isProcessingQueue
    /\ uploadMessage = [type |-> "info", text |-> "processed_with_errors", names |-> <<1, 1, 1>>]
    /\ successCount = 1 /\ alreadyIndexedCount = 1 /\ errorCount = 1

\* C17: a failed item can be retried by selecting the same file again: when
\* handleFileSelect receives a file whose identity is held by an 'error'
\* item of the queue, the queue afterwards holds a 'waiting' item of that
\* identity for the next drain to submit.
C17_RetryByEnqueue ==
    [][\A f \in Files :
          (/\ handleFileSelect(<<f>>)
           /\ IsPdf(f)
           /\ \E k \in 1..Len(selectedFiles) :
                  SameIdentity(selectedFiles[k].file, f) /\ StatusAt(k) = "error") =>
              \E k \in 1..Len(selectedFiles') :
                  /\ SameIdentity(selectedFiles'[k].file, f)
                  /\ selectedFiles'[k].status = "waiting"]_vars

\* C18: a queue item carries details only if its status is 'success';
\* waiting, uploading, already_indexed and error items have none.
C18_DetailsOnlyWhenIndexed ==
    \A k \in 1..Len(selectedFiles) :
        selectedFiles[k].details.present => StatusAt(k) = "success"

(***************************************************************************)
(* Further properties of the selection model                                *)
(***************************************************************************)
\* C19: toggleDocumentInModal on a selected document removes the document
\* from tempSelectedDocuments and every pair naming it from
\* tempSelectedTopics; and in every reachable state each selected pair names
\* a document of the matching document list, in the modal's copies
\* (tempSelectedTopics / tempSelectedDocuments) and in the live cells
\* (selectedTopics / selectedDocuments).
C19_SelectionsNameSelectedDocuments ==
    /\ [][\A d \in Docs :
              (toggleDocumentInModal(d) /\ d \in Range(tempSelectedDocuments)) =>
                  /\ d \notin Range(tempSelectedDocuments')
                  /\ \A k \in 1..Len(tempSelectedTopics') :
                         tempSelectedTopics'[k].documentFilename # d]_vars
    /\ [](\A k \in 1..Len(tempSelectedTopics) :
              tempSelectedTopics[k].documentFilename \in Range(tempSelectedDocuments))
    /\ [](\A k \in 1..Len(selectedTopics) :
              selectedTopics[k].documentFilename \in Range(selectedDocuments))

\* The modal was reopened on a saved selection over both documents and the
\* first document has been deselected: its pair is gone from the modal's copy.
C19_Witness ==
    /\ showTopicModal
    /\ \E k \in 1..Len(selectedTopics) : selectedTopics[k].documentFilename = "d1"
    /\ "d1" \notin Range(tempSelectedDocuments)
    /\ Len(tempSelectedTopics) = 1
    /\ tempSelectedTopics[1].documentFilename = "d2"

C21_CommitIsOneStep ==
    /\ [][saveTopicSelections =>
              /\ selectedDocuments' = tempSelectedDocuments
              /\ selectedTopics' = tempSelectedTopics]_vars
    /\ [][(showTopicModal /\ (selectedDocuments' # selectedDocuments \/ selectedTopics' # selectedTopics)) =>
              /\ selectedDocuments' = tempSelectedDocuments
              /\ selectedTopics' = tempSelectedTopics]_vars

\* A selection over both documents has just been committed.
C21_Witness ==
    /\ ~showTopicModal
    /\ editSession = "none"
    /\ Len(selectedDocuments) = 2
    /\ Len(selectedTopics) = 2
    /\ selectedDocuments = tempSelectedDocuments
    /\ selectedTopics = tempSelectedTopics

\* C22: neither tempSelectedTopics nor selectedTopics holds the same
\* (topic, documentFilename) pair twice, whatever toggles, select-all,
\* deselect-all, document toggles, topic edits and commits have run.
C22_NoDuplicatePair ==
    /\ \A i, j \in 1..Len(tempSelectedTopics) : i # j => tempSelectedTopics[i] # tempSelectedTopics[j]
    /\ \A i, j \in 1..Len(selectedTopics) : i # j => selectedTopics[i] # selectedTopics[j]

\* C23: selecting in the modal a document that topicsCache already holds
\* sends no getDocumentTopics call and shows exactly the cached topics.
C23_CachedTopicsServed ==
    [][\A d \in Docs :
          (/\ toggleDocumentInModal(d)
           /\ d \notin Range(tempSelectedDocuments)
           /\ d \in DOMAIN topicsCache) =>
              /\ topicCalls' = topicCalls
              /\ d \in DOMAIN tempTopicsByDocument'
              /\ tempTopicsByDocument'[d] = topicsCache[d]
              /\ topicsCache' = topicsCache]_vars

\* Both documents are cached and selected, their topics shown from the
\* cache, and no call is outstanding.
C23_Witness ==
    /\ showTopicModal
    /\ DOMAIN topicsCache = Docs
    /\ tempSelectedDocuments = <<"d2", "d1">>
    /\ \A d \in Docs : topicCalls[d] = 0
    /\ \A d \in Docs : d \in DOMAIN tempTopicsByDocument /\ tempTopicsByDocument[d] = topicsCache[d]
    /\ Len(selectedDocuments) > 0

(***************************************************************************)
(* Properties of the topic cache                                            *)
(***************************************************************************)
\* C24: when updateDocumentTopics answers success, the topicsCache entry of
\* the document is the submitted list, name by name in the submitted order,
\* and the other entries are as before; when it answers success=false or
\* throws, topicsCache is unchanged.
C24_CacheReplacedWholesale ==
    [][\A r \in UpdateResponses :
          SaveTopicsRespond(r) =>
              IF ~r.thrown /\ r.success
              THEN /\ saveCall.doc \in DOMAIN topicsCache'
                   /\ NamesOf(topicsCache'[saveCall.doc]) = saveCall.topics
                   /\ \A d \in DOMAIN topicsCache' \ {saveCall.doc} :
                          d \in DOMAIN topicsCache /\ topicsCache'[d] = topicsCache[d]
              ELSE topicsCache' = topicsCache]_vars

\* A list that drops one of the fetched topics and adds a new one has been
\* saved: the cache holds exactly the new list.
C24_Witness ==
    /\ saveCall = NoSaveCall
    /\ ~showEditTopicsModal
    /\ "d1" \in DOMAIN topicsCache
    /\ NamesOf(topicsCache["d1"]) = <<"t2", "t3">>

(***************************************************************************)
(* Failures of external calls                                               *)
(***************************************************************************)
\* C25: a failing external call leaves an error on the screen.  For
\* getDocumentTopics: when the last outstanding call for a document fails
\* (throws or answers success=false), either a message cell of the panel
\* changes or the document's card stops showing the "loading topics" spinner.
C25_TopicFailureIsShown ==
    [][\A r \in TopicsResponses :
          (/\ TopicsRespond("d1", r)
           /\ (r.thrown \/ ~r.success)
           /\ topicCalls'["d1"] = 0)
          => \/ <<uploadMessage, quizError, providerMessage>>'
                    # <<uploadMessage, quizError, providerMessage>>
             \/ ~LoadingTopicsShown("d1")']_vars

(***************************************************************************)
(* Termination of the drain                                                 *)
(***************************************************************************)
\* C26: provided every awaited call returns or throws, every drain ends:
\* an item marked 'uploading' reaches 'success', 'already_indexed' or 'error',
\* and isUploading and isProcessingQueue go back to false, whatever the
\* answers of the index calls and of the three reloads.
C26_DrainTerminates ==
    /\ (isUploading \/ isProcessingQueue) ~> (~isUploading /\ ~isProcessingQueue)
    /\ \A k \in 1..MaxQueue :
          (k <= Len(selectedFiles) /\ selectedFiles[k].status = "uploading")
          ~> (k <= Len(selectedFiles)
                /\ selectedFiles[k].status \in {"success", "already_indexed", "error"})

\* A drain has ended with one item indexed and one failed, and its reload of
\* the statistics failed too (the mount's own reload is still outstanding).
C26_Witness ==
    /\ drainPc = "idle"
    /\ ~isUploading
    /\ ~isProcessingQueue
    /\ successCount > 0
    /\ errorCount > 0
    /\ indexStats = NoStats
    /\ statsLoads = 1

(***************************************************************************)
(* Topic lists and the documents they belong to                             *)
(***************************************************************************)
\* C27: topics are attached to selected documents only: every key of
\* tempTopicsByDocument is in tempSelectedDocuments and every key of
\* topicsByDocument is in selectedDocuments, also when a getDocumentTopics
\* answer arrives after the document was deselected or the modal was left.
C27_TopicsOnlyForSelected ==
    /\ DOMAIN tempTopicsByDocument \subseteq Range(tempSelectedDocuments)
    /\ DOMAIN topicsByDocument \subseteq Range(selectedDocuments)

(***************************************************************************)
(* Selected topics and the topic lists                                      *)
(***************************************************************************)
\* C28: every selected (topic, document) pair, scratch and live, names a
\* topic that is in the document's current topic list (the cached list, or
\* the list shown for the document), also after the list was edited and
\* saved with saveTopicsToBackend.
C28_SelectedTopicsExist ==
    /\ \A k \in 1..Len(tempSelectedTopics) :
          LET t == tempSelectedTopics[k]
          IN  t.topic \in Range(NamesOf(Get(topicsCache, t.documentFilename)))
                          \cup Range(NamesOf(Get(tempTopicsByDocument, t.documentFilename)))
    /\ \A k \in 1..Len(selectedTopics) :
          LET t == selectedTopics[k]
          IN  t.topic \in Range(NamesOf(Get(topicsCache, t.documentFilename)))
                          \cup Range(NamesOf(Get(topicsByDocument, t.documentFilename)))

(***************************************************************************)
(* Selected documents and the indexed documents                             *)
(***************************************************************************)
\* C29: every document of the live selection is one of the listed indexed
\* documents, also after handleResetIndex has succeeded and a later drain has
\* reloaded indexedDocuments.
C29_SelectedAreIndexed ==
    \A k \in 1..Len(selectedDocuments) : Listed(selectedDocuments[k])

(***************************************************************************)
(* Chat history                                                             *)
(***************************************************************************)
\* C30: whenever no chat request is in flight, chatMessages is empty or
\* alternates user, assistant, user, assistant, ...: every user message is
\* followed by exactly one assistant message, whatever the interleaving of
\* handleSend and clearChat.
C30_ChatAlternates ==
    chatCall = NoChatCall =>
        /\ Len(chatMessages) % 2 = 0
        /\ \A k \in 1..Len(chatMessages) :
              chatMessages[k].role = IF k % 2 = 1 THEN "user" ELSE "assistant"

====
